---- MODULE Spec2Model ----
(***************************************************************************)
(* A model of rucene's core write path: the per-thread document writer     *)
(* (DocumentsWriterPerThread, "DWPT"), the shared delete queue it appends  *)
(* to, the pool that hands ThreadStates to indexing threads, the segment   *)
(* descriptors (SegmentInfo, SegmentCommitInfo) and the compound file      *)
(* format.                                                                 *)
(*                                                                         *)
(* These specifications share the module:                                  *)
(*   Spec       indexing: several DWPTs run update_document and            *)
(*              update_documents against one delete queue and one          *)
(*              pending_num_docs, while the index writer appends deletes   *)
(*   SpecFlush  the whole life of one DWPT (indexing, prepare_flush,       *)
(*              flush, abort) while the index writer appends deletes       *)
(*   SpecReuse  the life of one DWPT whose caller goes on calling it after *)
(*              an abort                                                   *)
(*   SpecSegment  one DWPT and the set_max_doc calls on its SegmentInfo    *)
(*   SpecPool   DocumentsWriterPerThreadPool and its indexing threads      *)
(*   SpecPoolFair  the pool, with threads that leave the condvar wait      *)
(*   SpecPoolNoAbort  the pool while the writer never aborts               *)
(*   SpecFiles  the file set of one SegmentInfo                            *)
(*   SpecCompound  the compound format's writer and reader on a directory  *)
(*   SpecGen    the generations of one SegmentCommitInfo                   *)
(*   SpecNames  the file name of a generation, made and parsed back        *)
(* Each leaves the variables of the other parts as they are initially.     *)
(*                                                                         *)
(* Granularity.  A DWPT is used by one thread at a time (&mut self), so a  *)
(* call is cut only at its accesses to shared state: the atomic counter    *)
(* pending_num_docs and the delete queue.  One action is one such access   *)
(* followed by the local code up to the next access.                       *)
(*                                                                         *)
(* Arguments.  An argument is drawn where the code first reads it: whether *)
(* the indexing chain fails on a document when process_document is called, *)
(* whether the block has another document at the head of the loop, the     *)
(* del_term when the document or block is finished.                        *)
(***************************************************************************)
EXTENDS Integers, Sequences, FiniteSets, TLC

---------------------------------------------------------------------------
(* Bounds of the model.                                                    *)

\* The document cap.  core::index::index_writer::INDEX_MAX_DOCS is a tunable
\* of the write path; the model runs it small so the cap is reached.
INDEX_MAX_DOCS == 3

\* Spec: no call that draws a seq-no is started once this many were handed
\* out.
MaxSeqNo == 2

\* SpecFlush: the same, for the life of one DWPT.
MaxFlushSeqNo == 3

\* Longest block given to update_documents.
MaxBatch == 2

\* The DWPTs sharing one delete queue and one pending_num_docs counter.
Dwpts == {"A", "B"}

\* Delete terms.
Terms == {"t1"}

\* Option::None for a del_term.
NoTerm == "none"

\* The indexing threads that use the pool.
PoolThreads == {"T1", "T2", "T3"}

\* An inner mutex nobody holds.
Unlocked == "unlocked"

\* SpecGen: a commit info is constructed with generations -1 .. MaxInitGen
\* (read from a commit) and no generation above MaxGen is written.
MaxInitGen == 1

MaxGen == 4

\* SpecFiles: add_file is offered the names of up to MaxNameLen tokens,
\* add_files and set_files sets of names of up to MaxBatchNameLen tokens, and
\* MaxFileCalls calls are made.
MaxNameLen == 5

MaxBatchNameLen == 3

MaxFileCalls == 2

\* SpecCompound: the files packed have bodies of up to MaxBody bytes; an
\* entries file made elsewhere declares up to MaxEntries entries with offset
\* 0 or MaxOffset and length 0 or MaxLength, beside a data file with a
\* payload of up to MaxPayload bytes.
MaxBody == 2

MaxEntries == 3

MaxOffset == 1

MaxLength == 1

MaxPayload == 2
\* A damaged .cfs lacks up to this many bytes at its end.
MaxCut == 1
\* The files a flush writes have a length of 1 or of this many bytes.
MaxFileLength == 2

\* SpecNames: the generations of the file names made are 0 .. MaxGeneration.
MaxGeneration == 36

\* The checksums are numbers below ChecksumMod.
ChecksumMod == 65521

\* SpecGen: a commit info wraps a SegmentInfo with max_doc 0 .. MaxInitDoc,
\* and set_del_count is called with -1 .. MaxInitDoc + 1.
MaxInitDoc == 2

VARIABLES
    queue,             \* delete queue: the log of nodes, in queue order
    seq_no,            \* delete queue: the last seq-no handed out
    global_head,       \* delete queue: nodes 1..global_head are frozen already
    pending_num_docs,  \* Arc<AtomicI64> shared by the DWPTs
    dwpt,              \* dwpt[d]: the fields of DocumentsWriterPerThread d
    call,              \* call[d]: the call in flight on d (its pc, arguments, locals)
    last,              \* history: what the last step returned, and to whom
    returned,          \* history: the seq-nos returned to callers so far
    ret_count,         \* history: how many calls returned a seq-no so far
    thread_states,     \* pool: Vec<Arc<Mutex<ThreadState>>>; index idx is element idx + 1
    free_list,         \* pool: Vec<usize>, the last element is the next one popped
    pool_aborted,      \* pool: aborted
    tpc,               \* tpc[t]: where indexing thread t is with the pool
    held,              \* held[t]: the index of the LockedThreadState t has, -1 if none
    pool_last,         \* history: what the get_and_lock call that just ran found
    peak,              \* history: the largest number of simultaneous holders so far
    commit,            \* a SegmentCommitInfo: its counters and generations
    commit_last,       \* history: the last call on commit and commit before it
    skipped,           \* history: the del generations failed writes used up
    set_files,         \* a SegmentInfo: set_files, its file names
    files_last,        \* history: the last call on set_files and what it was given
    files_calls,       \* history: how many calls were made on set_files
    directory,         \* a Directory: its files, by name
    si_files,          \* the SegmentInfo given to the compound format: files()
    container,         \* history: how the .cfs / .cfe pair of directory was made
    reader,            \* a Lucene50CompoundReader, or the error of new
    reader_last,       \* history: the last call on reader and its result
    gen_name           \* a generation file name: its parts, the name, the generation parsed

dwptVars == <<queue, seq_no, global_head, pending_num_docs, dwpt, call, last,
              returned, ret_count>>

poolVars == <<thread_states, free_list, pool_aborted, tpc, held, pool_last,
              peak>>

commitVars == <<commit, commit_last, skipped>>

filesVars == <<set_files, files_last, files_calls>>

compoundVars == <<directory, si_files, container, reader, reader_last>>

vars == <<dwptVars, poolVars, commitVars, filesVars, compoundVars, gen_name>>

\* What the actions of each part leave alone.
notDwptVars == <<poolVars, commitVars, filesVars, compoundVars, gen_name>>

notPoolVars == <<dwptVars, commitVars, filesVars, compoundVars, gen_name>>

notCommitVars == <<dwptVars, poolVars, filesVars, compoundVars, gen_name>>

notFilesVars == <<dwptVars, poolVars, commitVars, compoundVars, gen_name>>

notCompoundVars == <<dwptVars, poolVars, commitVars, filesVars, gen_name>>

notNameVars == <<dwptVars, poolVars, commitVars, filesVars, compoundVars>>

---------------------------------------------------------------------------
(* Helpers.                                                                *)

SetMax(S) == IF S = {} THEN 0 ELSE CHOOSE x \in S : \A y \in S : y <= x

\* The ids hi, hi-1, .., lo+1 in that order (the loop of update_documents).
RECURSIVE DownFrom(_, _)
DownFrom(hi, lo) == IF hi > lo THEN <<hi>> \o DownFrom(hi - 1, lo) ELSE <<>>

Range(s) == {s[i] : i \in 1..Len(s)}

\* Index of the first TRUE of a sequence of flags, 0 when there is none.
FirstTrue(fs) ==
    IF \E i \in 1..Len(fs) : fs[i]
    THEN CHOOSE i \in 1..Len(fs) : fs[i] /\ \A k \in 1..(i - 1) : ~fs[k]
    ELSE 0

---------------------------------------------------------------------------
(* The delete queue (core::index::doc_writer_delete_queue) and the         *)
(* buffered updates (core::index::bufferd_updates).                        *)

\* A node of the log: the delete term and the seq-no its append returned.
Node(term, s) == [term |-> term, seq |-> s]

\* DocumentsWriterDeleteQueue::new_slice: an empty slice at the current tail.
NewSlice(q) == [head |-> Len(q), tail |-> Len(q)]

\* add_delete_term(term): append, return the assigned seq-no.
QAddDeleteTerm(q, s, term) ==
    [queue |-> Append(q, Node(term, s + 1)), seq_no |-> s + 1]

\* add_term_to_slice(term, slice): append and advance the slice tail to the
\* new node.
QAddTermToSlice(q, s, term, slice) ==
    [queue |-> Append(q, Node(term, s + 1)), seq_no |-> s + 1,
     slice |-> [slice EXCEPT !.tail = Len(q) + 1], changed |-> TRUE]

\* update_slice(slice): advance the slice tail to the queue's tail; changed
\* iff a node was picked up.
QUpdateSlice(q, s, slice) ==
    [queue |-> q, seq_no |-> s + 1,
     slice |-> [slice EXCEPT !.tail = Len(q)], changed |-> slice.tail # Len(q)]

\* freeze_global_buffer(local_slice): snapshot the nodes enqueued since the
\* last freeze and advance the global slice and the caller's slice past every
\* node enqueued so far.
QFreezeGlobalBuffer(q, gh, slice) ==
    [frozen |-> (gh + 1)..Len(q), global_head |-> Len(q),
     slice |-> [slice EXCEPT !.tail = Len(q)]]

\* DeleteSlice::is_empty
SliceIsEmpty(slice) == slice.head = slice.tail

\* Variant of SliceReset: the slice keeps the range it had.
SliceResetKeepsRange(slice) == slice

\* DeleteSlice::reset: collapse to an empty range at the current tail.
SliceReset(slice) == [head |-> slice.tail, tail |-> slice.tail]

\* DeleteSlice::apply(buffer, doc_id_upto): drain (head, tail] into the
\* buffer, stamping each node with doc_id_upto.
SliceApplyTerms(q, slice, terms, upto) ==
    terms \cup {[node |-> i, term |-> q[i].term, upto |-> upto] :
                    i \in (slice.head + 1)..slice.tail}

\* BufferedUpdates::new
NewBufferedUpdates == [deleted_terms |-> {}, deleted_doc_ids |-> <<>>]

\* BufferedUpdates::add_doc_id
AddDocId(pu, doc_id) ==
    [pu EXCEPT !.deleted_doc_ids = Append(@, doc_id)]

\* BufferedUpdates::clear
ClearBufferedUpdates == NewBufferedUpdates

---------------------------------------------------------------------------
(* SegmentInfo's file set (core::index).  A file name is a sequence of     *)
(* tokens: "_", ".", the alphanumeric run "a" and the alphanumeric run     *)
(* "tmp".                                                                  *)

Tokens == {"_", ".", "a", "tmp"}

\* [a-z0-9]
IsAlnum(t) == t \in {"a", "tmp"}

\* The names of 1 .. n tokens.
NamesUpTo(n) == UNION {[1..k -> Tokens] : k \in 1..n}

\* The names a caller offers to add_file, and to add_files and set_files.
FileNames == NamesUpTo(MaxNameLen)

BatchNames == NamesUpTo(MaxBatchNameLen)

\* SegmentInfo.name
SegmentName == <<"_", "a">>

\* The smallest index from `from` on where name has token t, 0 if none.
Find(name, t, from) ==
    IF \E i \in from..Len(name) : name[i] = t
    THEN CHOOSE i \in from..Len(name) :
            name[i] = t /\ \A j \in from..(i - 1) : name[j] # t
    ELSE 0

\* index_of_segment_name: the first '_' after the first character, or else
\* the first '.' after it; 0 for None.
IndexOfSegmentName(name) ==
    IF Find(name, "_", 2) # 0 THEN Find(name, "_", 2) ELSE Find(name, ".", 2)

\* strip_segment_name
StripSegmentName(name) ==
    IF IndexOfSegmentName(name) # 0
    THEN SubSeq(name, IndexOfSegmentName(name), Len(name))
    ELSE name

\* named_for_this_segment
NamedForThisSegment(name) == SegmentName \o StripSegmentName(name)

\* CODEC_FILE_PATTERN, _[a-z0-9]+(_.*)?\..* , matched with its first
\* character at index i of name.
PatternAt(name, i) ==
    /\ name[i] = "_"
    /\ \E j \in (i + 1)..Len(name) :
          /\ \A k \in (i + 1)..j : IsAlnum(name[k])
          /\ j + 1 <= Len(name)
          /\ \/ name[j + 1] = "."
             \/ /\ name[j + 1] = "_"
                /\ \E k \in (j + 2)..Len(name) : name[k] = "."

\* The pattern matched against the whole name: what a codec file name is.
IsCodecFileName(name) == PatternAt(name, 1)

\* Regex::is_match: the pattern matches somewhere in name.
PatternIsMatch(name) == \E i \in 1..Len(name) : PatternAt(name, i)

\* to_lowercase().ends_with(".tmp")
EndsWithTmp(name) ==
    Len(name) >= 2 /\ name[Len(name)] = "tmp" /\ name[Len(name) - 1] = "."

\* check_file_name: Ok(())
CheckFileName(name) == PatternIsMatch(name) /\ ~EndsWithTmp(name)

\* add_file(file)
AddFile(files, file) ==
    IF ~CheckFileName(file)
    THEN [ok |-> FALSE, files |-> files]
    ELSE [ok |-> TRUE, files |-> files \cup {NamedForThisSegment(file)}]

\* add_files(files): every name is checked before any is inserted.
AddFiles(files, offered) ==
    IF \E f \in offered : ~CheckFileName(f)
    THEN [ok |-> FALSE, files |-> files]
    ELSE [ok |-> TRUE,
          files |-> files \cup {NamedForThisSegment(f) : f \in offered}]

\* set_files(files): the set is replaced by an empty one, then add_files.
SetFiles(files, offered) == AddFiles({}, offered)

\* No call was made on the file set.
NoFilesCall == [op |-> "none"]

\* A name that is no codec file name, or one that ends in .tmp.
InvalidName(name) == ~IsCodecFileName(name) \/ EndsWithTmp(name)

\* The call op was given the names offered, on the file set `before`; what is
\* kept of the names is whether one of them was invalid.
FilesCall(op, offered, before, ok) ==
    [op |-> op, invalid |-> \E f \in offered : InvalidName(f),
     before |-> before, ok |-> ok]

\* The sets of at most two names given to add_files and set_files.
Batches == {{f, g} : f \in BatchNames, g \in BatchNames} \cup {{}}

AddFileCall ==
    \E file \in FileNames :
        LET r == AddFile(set_files, file)
        IN  /\ files_calls < MaxFileCalls
            /\ set_files' = r.files
            /\ files_last' = FilesCall("add_file", {file}, set_files, r.ok)
            /\ files_calls' = files_calls + 1
            /\ UNCHANGED notFilesVars

AddFilesCall ==
    \E offered \in Batches :
        LET r == AddFiles(set_files, offered)
        IN  /\ files_calls < MaxFileCalls
            /\ set_files' = r.files
            /\ files_last' = FilesCall("add_files", offered, set_files, r.ok)
            /\ files_calls' = files_calls + 1
            /\ UNCHANGED notFilesVars

SetFilesCall ==
    \E offered \in Batches :
        LET r == SetFiles(set_files, offered)
        IN  /\ files_calls < MaxFileCalls
            /\ set_files' = r.files
            /\ files_last' = FilesCall("set_files", offered, set_files, r.ok)
            /\ files_calls' = files_calls + 1
            /\ UNCHANGED notFilesVars

---------------------------------------------------------------------------
(* SegmentCommitInfo (core::index).  Of the wrapped SegmentInfo only       *)
(* max_doc is kept.                                                        *)

\* Variant of NextWriteGen: one above the generation, also when it is -1.
NextWriteGenPlusOne(gen) == gen + 1

\* SegmentCommitInfo::new: the next generation to write of each kind.
NextWriteGen(gen) == IF gen = -1 THEN 1 ELSE gen + 1

\* SegmentCommitInfo::new(info, del_count, del_gen, field_infos_gen,
\* doc_values_gen, ..)
SegmentCommitInfoNew(max_doc, del_count, del_gen, field_infos_gen, doc_values_gen) ==
    [max_doc                    |-> max_doc,
     del_count                  |-> del_count,
     del_gen                    |-> del_gen,
     next_write_del_gen         |-> NextWriteGen(del_gen),
     field_infos_gen            |-> field_infos_gen,
     next_write_field_infos_gen |-> NextWriteGen(field_infos_gen),
     doc_values_gen             |-> doc_values_gen,
     next_write_doc_values_gen  |-> NextWriteGen(doc_values_gen),
     size_in_bytes              |-> -1]

\* Variant of SetDelCount: no upper bound is tested.
SetDelCountUnbounded(sci, del_count) ==
    IF del_count < 0
    THEN [ok |-> FALSE, sci |-> sci]
    ELSE [ok |-> TRUE, sci |-> [sci EXCEPT !.del_count = del_count]]

\* set_del_count(del_count): Err(IllegalArgument) and nothing stored if the
\* count is out of range.
SetDelCount(sci, del_count) ==
    IF del_count < 0 \/ del_count > sci.max_doc
    THEN [ok |-> FALSE, sci |-> sci]
    ELSE [ok |-> TRUE, sci |-> [sci EXCEPT !.del_count = del_count]]

\* Variant of AdvanceDelGen: the generation is raised by one instead of
\* taken from next_write_del_gen.
AdvanceDelGenByOne(sci) ==
    [sci EXCEPT !.del_gen = sci.del_gen + 1,
                !.next_write_del_gen = sci.del_gen + 2]

\* advance_del_gen
AdvanceDelGen(sci) ==
    [sci EXCEPT !.del_gen = sci.next_write_del_gen,
                !.next_write_del_gen = sci.next_write_del_gen + 1,
                !.size_in_bytes = -1]

\* Variant of AdvanceFieldInfosGen: next_write_field_infos_gen is left as it
\* was.
AdvanceFieldInfosGenKeepNext(sci) ==
    [sci EXCEPT !.field_infos_gen = sci.next_write_field_infos_gen]

\* advance_field_infos_gen
AdvanceFieldInfosGen(sci) ==
    [sci EXCEPT !.field_infos_gen = sci.next_write_field_infos_gen,
                !.next_write_field_infos_gen =
                    sci.next_write_field_infos_gen + 1,
                !.size_in_bytes = -1]

\* size_in_bytes(): the cached size, or if it is -1 the sum of the lengths of
\* the files of files(), which is cached.  sum: that sum at the call.
SizeInBytes(sci, sum) ==
    IF sci.size_in_bytes = -1 THEN [sci EXCEPT !.size_in_bytes = sum] ELSE sci

\* Variant of AdvanceNextWriteDelGen: the counter is not moved.
AdvanceNextWriteDelGenStuck(sci) == sci

\* advance_next_write_del_gen
AdvanceNextWriteDelGen(sci) ==
    [sci EXCEPT !.next_write_del_gen = @ + 1]

\* No call was made on the commit info.
NoCommitCall == [op |-> "none"]

\* The call op was made on the commit info `before`.
CommitCall(op, before) == [op |-> op, before |-> before]

\* set_del_count(del_count) on the commit info.
SetDelCountCall ==
    \E del_count \in -1..(MaxInitDoc + 1) :
        LET r == SetDelCount(commit, del_count)
        IN  /\ commit' = r.sci
            /\ commit_last' = [op |-> "set_del_count", before |-> commit,
                               del_count |-> del_count, ok |-> r.ok]
            /\ UNCHANGED <<notCommitVars, skipped>>

\* A live-docs write of generation next_write_del_gen succeeded:
\* advance_del_gen().
AdvanceDelGenCall ==
    /\ commit.next_write_del_gen < MaxGen
    /\ commit' = AdvanceDelGen(commit)
    /\ commit_last' = CommitCall("advance_del_gen", commit)
    /\ UNCHANGED <<notCommitVars, skipped>>

\* A live-docs write of generation next_write_del_gen failed:
\* advance_next_write_del_gen().
AdvanceNextWriteDelGenCall ==
    /\ commit.next_write_del_gen < MaxGen
    /\ commit' = AdvanceNextWriteDelGen(commit)
    /\ commit_last' = CommitCall("advance_next_write_del_gen", commit)
    /\ skipped' = skipped \cup {commit.next_write_del_gen}
    /\ UNCHANGED notCommitVars

\* A field-infos write of generation next_write_field_infos_gen succeeded:
\* advance_field_infos_gen().
AdvanceFieldInfosGenCall ==
    /\ commit.next_write_field_infos_gen < MaxGen
    /\ commit' = AdvanceFieldInfosGen(commit)
    /\ commit_last' = CommitCall("advance_field_infos_gen", commit)
    /\ UNCHANGED <<notCommitVars, skipped>>

---------------------------------------------------------------------------
(* DocumentsWriterPerThread.                                               *)

\* No segment was flushed.
NoSegment == [flushed |-> FALSE]

\* FlushedSegment::new
FlushedSegment(segment_info, live_docs, del_count) ==
    [flushed |-> TRUE, segment_info |-> segment_info,
     live_docs |-> live_docs, del_count |-> del_count]

\* The lengths a file can have: no file of an index is empty, each has a
\* header and a footer.
LengthsOfFile(written) == IF written THEN {1, MaxFileLength} ELSE {1}

\* What a flush can find as the lengths of the files it writes: the files of
\* the indexing chain, the compound file, the .si file and the live docs.  Only the
\* length of a file that the flush writes is an input of the flush; for a file
\* it does not write the draw is held at 1.
FileLengths(all_written, use_compound_file, has_live_docs) ==
    [chain : LengthsOfFile(all_written),
     cfs   : LengthsOfFile(all_written /\ use_compound_file),
     si    : LengthsOfFile(all_written),
     liv   : LengthsOfFile(all_written /\ has_live_docs)]

\* files() of the commit info flush returned for dw: what the flush wrote,
\* the compound file standing for the chain's files where it was made.
FilesOfFlushedSegment(dw) ==
    IF "cfs" \in dw.written THEN dw.written \ {"chain"} ELSE dw.written

\* Directory::file_length summed over the files of S.
FilesLength(length, S) ==
    (IF "chain" \in S THEN length.chain ELSE 0)
        + (IF "cfs" \in S THEN length.cfs ELSE 0)
        + (IF "si" \in S THEN length.si ELSE 0)
        + (IF "liv" \in S THEN length.liv ELSE 0)

\* DocumentsWriterPerThread::new
NewDwpt(q) ==
    [num_docs_in_ram |-> 0,
     delete_slice    |-> NewSlice(q),
     pending_updates |-> NewBufferedUpdates,
     aborted         |-> FALSE,
     max_doc         |-> -1,     \* segment_info.max_doc
     flushed         |-> FALSE,  \* history: flush returned a segment
     freeze_at       |-> -1,     \* history: queue length at the freeze of prepare_flush
     flush_saw       |-> {},     \* history: the deleted terms the flush was given
     flush_ids       |-> <<>>,   \* history: the deleted doc ids the flush was given
     written         |-> {},     \* history: what the flushes wrote to the directory
     files_size      |-> 0,      \* history: the lengths of the flushed segment's files, summed
     segment         |-> NoSegment,  \* history: the segment flush returned
     doc_seq         |-> <<>>]   \* history: the seq-no each doc id finished with, 0 if none

\* The steps of do_flush and seal_flushed_segment that return an error.
FlushSteps == {"chain", "set_files", "compound", "si", "live_docs"}

\* The flush fails at none of its steps.
NoFailure == "none"

\* No call in flight.  Besides pc and the local doc_count, a call record holds
\* what the DWPT and the queue were when the call began (n0, ids0, terms0,
\* slice0, gh0, full0, aborted0, written0, max_doc0), the queue length when the
\* document was indexed
\* (qlen_indexed), what the call is about to return (del_term as given,
\* frozen) and the step a flush failed at (fail), for the properties to
\* compare against.
NoCall ==
    [pc |-> "idle", op |-> "none", doc_count |-> 0, del_term |-> NoTerm,
     n0 |-> 0, ids0 |-> <<>>, terms0 |-> {}, slice0 |-> [head |-> 0, tail |-> 0],
     gh0 |-> 0, full0 |-> FALSE, qlen_indexed |-> 0, frozen |-> {},
     fail |-> NoFailure, aborted0 |-> FALSE, written0 |-> {}, max_doc0 |-> -1,
     max_doc |-> -1]

\* The last step returned nothing to anyone.
NoEvent == [d |-> "none", status |-> "none", seq |-> 0, call |-> NoCall]

\* The last step returned `status` (and seq) from the call c on d.
Event(d, status, seq, c) == [d |-> d, status |-> status, seq |-> seq, call |-> c]

\* The caller of the index writer's delete-by-term.
Writer == "writer"

Idle(d) == call[d].pc = "idle"

\* d is between the fetch_add of reserve_one_doc and its outcome.
Reserving(d) == call[d].pc \in {"reserve_load", "reserve_sub"}

\* d was prepared for flush.
Prepared(d) == dwpt[d].freeze_at >= 0

\* A caller may start an update on d: nothing is in flight and d is in the
\* indexing part of its life, neither prepared for flush nor flushed.  No
\* method looks at `aborted` on entry, so a caller that reuses an aborted
\* DWPT gets in.
MayUpdate(d) ==
    Idle(d) /\ ~dwpt[d].flushed /\ ~Prepared(d)

BeginCall(d, op) ==
    [NoCall EXCEPT
        !.op = op,
        !.n0 = dwpt[d].num_docs_in_ram,
        !.ids0 = dwpt[d].pending_updates.deleted_doc_ids,
        !.terms0 = dwpt[d].pending_updates.deleted_terms,
        !.slice0 = dwpt[d].delete_slice,
        !.gh0 = global_head,
        !.aborted0 = dwpt[d].aborted,
        !.written0 = dwpt[d].written,
        !.max_doc0 = dwpt[d].max_doc,
        !.full0 = /\ pending_num_docs = INDEX_MAX_DOCS
                  /\ \A e \in Dwpts \ {d} : ~Reserving(e)]

\* The call c on d returns Ok(seq), a seq-no.
ReturnSeqNo(d, c, seq) ==
    /\ call' = [call EXCEPT ![d] = NoCall]
    /\ last' = Event(d, "Ok", seq, c)
    /\ returned' = returned \cup {seq}
    /\ ret_count' = ret_count + 1

\* The call c on d returns `status`, which is no seq-no.
Return(d, c, status) ==
    /\ call' = [call EXCEPT ![d] = NoCall]
    /\ last' = Event(d, status, 0, c)
    /\ UNCHANGED <<returned, ret_count>>

\* The step returns nothing.
NoReturn ==
    /\ last' = NoEvent
    /\ UNCHANGED <<returned, ret_count>>

---------------------------------------------------------------------------
(* reserve_one_doc, update_document, finish_document.                      *)

\* Variant of ReserveExceeded: the cap tested one too high.
ReserveExceededLate(p) == p > INDEX_MAX_DOCS + 1

\* reserve_one_doc: the test made on the value loaded after the fetch_add.
ReserveExceeded(p) == p > INDEX_MAX_DOCS

\* Variant of FinishQueueOp: update_slice hands back the current seq-no
\* instead of drawing a new one.
FinishQueueOpNoSeqNo(q, s, del_term, slice) ==
    IF del_term # NoTerm
    THEN QAddTermToSlice(q, s, del_term, slice)
    ELSE [QUpdateSlice(q, s, slice) EXCEPT !.seq_no = s]

\* finish_document: the queue operation that finishes the document.
FinishQueueOp(q, s, del_term, slice) ==
    IF del_term # NoTerm
    THEN QAddTermToSlice(q, s, del_term, slice)
    ELSE QUpdateSlice(q, s, slice)

\* Variant of FinishApplySlice: with a del_term the slice is always applied.
FinishApplySliceAlways(has_del_term, n, changed) ==
    IF has_del_term THEN TRUE ELSE changed

\* Variant of FinishApplySlice: a del_term never has the slice applied.
FinishApplySliceNever(has_del_term, n, changed) ==
    IF has_del_term THEN FALSE ELSE changed

\* finish_document: apply_slice, whether the slice is applied or reset.
FinishApplySlice(has_del_term, n, changed) ==
    IF has_del_term THEN n > 0 ELSE changed

\* Variant of FinishDocIdUpto: the bound includes the document just added.
FinishDocIdUptoInclusive(n) == n + 1

\* finish_document: the doc_id_upto the slice is applied with.
FinishDocIdUpto(n) == n

\* delete_doc_id
DeleteDocId(dw, doc_id) ==
    [dw EXCEPT !.pending_updates = AddDocId(@, doc_id)]

\* Variant of FailedDocument: the failed document is counted twice, in the
\* error branch and again on the way out.
FailedDocumentTwice(dw) ==
    [DeleteDocId(dw, dw.num_docs_in_ram) EXCEPT
        !.num_docs_in_ram = @ + 2,
        !.doc_seq = Append(Append(@, 0), 0)]

\* update_document's error branch: mark the document deleted, count it.
FailedDocument(dw) ==
    [DeleteDocId(dw, dw.num_docs_in_ram) EXCEPT
        !.num_docs_in_ram = @ + 1,
        !.doc_seq = Append(@, 0)]

\* update_document(doc, del_term), up to the fetch_add of reserve_one_doc.
UpdateDocument(d) ==
    /\ MayUpdate(d)
    /\ pending_num_docs' = pending_num_docs + 1
    /\ call' = [call EXCEPT ![d] =
                  [BeginCall(d, "update_document") EXCEPT !.pc = "reserve_load"]]
    /\ NoReturn
    /\ UNCHANGED <<notDwptVars, queue, seq_no, global_head, dwpt>>

\* reserve_one_doc: the load and the test.
ReserveLoad(d) ==
    /\ call[d].pc = "reserve_load"
    /\ call' = [call EXCEPT ![d] =
                  [@ EXCEPT !.pc = IF ReserveExceeded(pending_num_docs)
                                   THEN "reserve_sub" ELSE "process"]]
    /\ NoReturn
    /\ UNCHANGED <<notDwptVars, queue, seq_no, global_head, pending_num_docs,
                   dwpt>>

\* update_document after a successful reservation: process_document and, when
\* it fails, the error branch.  fails: whether the indexing chain fails.
ProcessDocument(d) ==
    \E fails \in BOOLEAN :
        /\ call[d].pc = "process"
        /\ call[d].op = "update_document"
        /\ UNCHANGED <<notDwptVars, queue, seq_no, global_head, pending_num_docs>>
        /\ IF fails
           THEN /\ dwpt' = [dwpt EXCEPT ![d] = FailedDocument(@)]
                /\ Return(d, call[d], "IndexingError")
           ELSE /\ call' = [call EXCEPT ![d] =
                              [@ EXCEPT !.pc = "finish", !.qlen_indexed = Len(queue)]]
                /\ NoReturn
                /\ UNCHANGED dwpt

\* finish_document(del_term)
FinishDocument(d) ==
    \E del_term \in Terms \cup {NoTerm} :
        LET dw == dwpt[d]
            n  == dw.num_docs_in_ram
            r  == FinishQueueOp(queue, seq_no, del_term, dw.delete_slice)
            apply_slice == FinishApplySlice(del_term # NoTerm, n, r.changed)
        IN  /\ call[d].pc = "finish"
            /\ queue' = r.queue
            /\ seq_no' = r.seq_no
            /\ dwpt' = [dwpt EXCEPT ![d] =
                  [dw EXCEPT
                     !.pending_updates.deleted_terms =
                         IF apply_slice
                         THEN SliceApplyTerms(r.queue, r.slice, @, FinishDocIdUpto(n))
                         ELSE @,
                     !.delete_slice = SliceReset(r.slice),
                     !.num_docs_in_ram = n + 1,
                     !.doc_seq = Append(@, r.seq_no)]]
            /\ ReturnSeqNo(d, [call[d] EXCEPT !.del_term = del_term], r.seq_no)
            /\ UNCHANGED <<notDwptVars, global_head, pending_num_docs>>

---------------------------------------------------------------------------
(* update_documents, do_update_documents.                                  *)

\* do_update_documents: the queue operation that ends a block.
BlockQueueOp(q, s, del_term, slice) ==
    IF del_term # NoTerm
    THEN QAddTermToSlice(q, s, del_term, slice)
    ELSE QUpdateSlice(q, s, slice)

\* do_update_documents: whether the slice is applied or reset.
BlockApplySlice(has_del_term, changed) ==
    IF has_del_term THEN TRUE ELSE changed

\* Variant of BlockDocIdUpto: the bound takes in the documents of the block.
BlockDocIdUptoWithBlock(n, doc_count) == n

\* do_update_documents: the doc_id_upto the slice is applied with.
BlockDocIdUpto(n, doc_count) == n - doc_count

\* Variant of MarkBlockDeleted: the marking starts at num_docs_in_ram, one
\* above the block's last document.
MarkBlockDeletedFromCount(dw, doc_count, all_docs_indexed) ==
    IF ~all_docs_indexed /\ ~dw.aborted
    THEN [dw EXCEPT !.pending_updates.deleted_doc_ids =
            @ \o DownFrom(dw.num_docs_in_ram, dw.num_docs_in_ram - doc_count)]
    ELSE dw

\* Variant of MarkBlockDeleted: the loop stops one id early and leaves the
\* first document of the block unmarked.
MarkBlockDeletedButFirst(dw, doc_count, all_docs_indexed) ==
    IF ~all_docs_indexed /\ ~dw.aborted
    THEN [dw EXCEPT !.pending_updates.deleted_doc_ids =
            @ \o DownFrom(dw.num_docs_in_ram - 1,
                          dw.num_docs_in_ram - doc_count)]
    ELSE dw

\* update_documents after do_update_documents returned: mark the docs of
\* the block as deleted unless all were indexed.
MarkBlockDeleted(dw, doc_count, all_docs_indexed) ==
    IF ~all_docs_indexed /\ ~dw.aborted
    THEN [dw EXCEPT !.pending_updates.deleted_doc_ids =
            @ \o DownFrom(dw.num_docs_in_ram - 1,
                          dw.num_docs_in_ram - 1 - doc_count)]
    ELSE dw

\* Variant of BlockDocument: the document is not counted.
BlockDocumentNotCounted(dw) == [dw EXCEPT !.doc_seq = Append(@, 0)]

\* do_update_documents: a document of the block was handed to the chain.
BlockDocument(dw) ==
    [dw EXCEPT !.num_docs_in_ram = @ + 1, !.doc_seq = Append(@, 0)]

\* update_documents(docs, del_term), up to the first fetch_add.
\* empty: whether docs is empty.
UpdateDocuments(d) ==
    \E empty \in BOOLEAN :
        LET c == BeginCall(d, "update_documents")
        IN  /\ MayUpdate(d)
            /\ IF empty
               THEN /\ call' = [call EXCEPT ![d] = [c EXCEPT !.pc = "block_finish"]]
                    /\ UNCHANGED pending_num_docs
               ELSE /\ call' = [call EXCEPT ![d] = [c EXCEPT !.pc = "reserve_load"]]
                    /\ pending_num_docs' = pending_num_docs + 1
            /\ NoReturn
    /\ UNCHANGED <<notDwptVars, queue, seq_no, global_head, dwpt>>

\* reserve_one_doc of a later doc of the block: the fetch_add.
ReserveAdd(d) ==
    /\ call[d].pc = "reserve_add"
    /\ pending_num_docs' = pending_num_docs + 1
    /\ call' = [call EXCEPT ![d] = [@ EXCEPT !.pc = "reserve_load"]]
    /\ NoReturn
    /\ UNCHANGED <<notDwptVars, queue, seq_no, global_head, dwpt>>

\* reserve_one_doc: the roll back and the error, which update_document
\* passes on and update_documents passes on after marking the block.
ReserveSub(d) ==
    /\ call[d].pc = "reserve_sub"
    /\ pending_num_docs' = pending_num_docs - 1
    /\ dwpt' = [dwpt EXCEPT ![d] =
          IF call[d].op = "update_documents"
          THEN MarkBlockDeleted(@, call[d].doc_count, FALSE)
          ELSE @]
    /\ Return(d, call[d], "IllegalArgument")
    /\ UNCHANGED <<notDwptVars, queue, seq_no, global_head>>

\* do_update_documents: one turn of the loop after a successful reservation.
\* fails: whether the indexing chain fails; more: whether a document follows.
ProcessBlockDocument(d) ==
    \E fails \in BOOLEAN, more \in BOOLEAN :
        LET doc_count == call[d].doc_count + 1
        IN  /\ call[d].pc = "process"
            /\ call[d].op = "update_documents"
            /\ UNCHANGED <<notDwptVars, queue, seq_no, global_head,
                           pending_num_docs>>
            /\ IF fails
               THEN /\ ~more
                    /\ dwpt' = [dwpt EXCEPT ![d] =
                          MarkBlockDeleted(BlockDocument(@), doc_count, FALSE)]
                    /\ Return(d, [call[d] EXCEPT !.doc_count = doc_count],
                              "IndexingError")
               ELSE /\ more => doc_count < MaxBatch
                    /\ dwpt' = [dwpt EXCEPT ![d] = BlockDocument(@)]
                    /\ call' = [call EXCEPT ![d] =
                          [@ EXCEPT !.doc_count = doc_count,
                                    !.qlen_indexed = Len(queue),
                                    !.pc = IF more THEN "reserve_add"
                                                   ELSE "block_finish"]]
                    /\ NoReturn

\* do_update_documents after the loop: all docs indexed, apply del_term.
BlockFinish(d) ==
    \E del_term \in Terms \cup {NoTerm} :
        LET dw == dwpt[d]
            c  == call[d]
            n  == dw.num_docs_in_ram
            r  == BlockQueueOp(queue, seq_no, del_term, dw.delete_slice)
            apply_slice == BlockApplySlice(del_term # NoTerm, r.changed)
        IN  /\ c.pc = "block_finish"
            /\ queue' = r.queue
            /\ seq_no' = r.seq_no
            /\ dwpt' = [dwpt EXCEPT ![d] =
                  [dw EXCEPT
                     !.pending_updates.deleted_terms =
                         IF apply_slice
                         THEN SliceApplyTerms(r.queue, r.slice, @,
                                              BlockDocIdUpto(n, c.doc_count))
                         ELSE @,
                     !.delete_slice = SliceReset(r.slice),
                     !.doc_seq = [i \in 1..Len(@) |->
                                    IF i > Len(@) - c.doc_count THEN r.seq_no ELSE @[i]]]]
            /\ ReturnSeqNo(d, [c EXCEPT !.del_term = del_term], r.seq_no)
            /\ UNCHANGED <<notDwptVars, global_head, pending_num_docs>>

---------------------------------------------------------------------------
(* Deletes of the index writer, prepare_flush, flush, abort.               *)

\* IndexWriter's delete-by-term: add_delete_term on the shared queue.
AddDeleteTerm ==
    \E term \in Terms :
        LET r == QAddDeleteTerm(queue, seq_no, term)
        IN  /\ queue' = r.queue
            /\ seq_no' = r.seq_no
            /\ last' = Event(Writer, "Ok", r.seq_no,
                          [NoCall EXCEPT !.op = "add_delete_term",
                                         !.del_term = term])
            /\ returned' = returned \cup {r.seq_no}
            /\ ret_count' = ret_count + 1
            /\ UNCHANGED <<notDwptVars, global_head, pending_num_docs, dwpt, call>>

\* prepare_flush, up to and including freeze_global_buffer.
PrepareFlush(d) ==
    LET dw == dwpt[d]
        r  == QFreezeGlobalBuffer(queue, global_head, dw.delete_slice)
    IN  /\ MayUpdate(d) /\ ~dw.aborted
        /\ dw.num_docs_in_ram > 0
        /\ global_head' = r.global_head
        /\ dwpt' = [dwpt EXCEPT ![d] = [dw EXCEPT !.delete_slice = r.slice,
                                                  !.freeze_at = Len(queue)]]
        /\ call' = [call EXCEPT ![d] =
                      [BeginCall(d, "prepare_flush") EXCEPT
                          !.pc = "prepare_apply", !.frozen = r.frozen]]
        /\ NoReturn
        /\ UNCHANGED <<notDwptVars, queue, seq_no, pending_num_docs>>

\* Variant of PrepareDocIdUpto: the bound leaves out the last document.
PrepareDocIdUptoBeforeLast(n) == n - 1

\* prepare_flush: the doc_id_upto the slice is applied with.
PrepareDocIdUpto(n) == n

\* Variant of PrepareReleaseSlice: the slice is left as it was applied.
PrepareReleaseSliceKept(slice) == slice

\* prepare_flush: the delete slice after apply and reset.
PrepareReleaseSlice(slice) == SliceReset(slice)

\* prepare_flush after the freeze: apply the slice, reset it, return the
\* frozen global updates.
PrepareFlushApply(d) ==
    LET dw == dwpt[d]
    IN  /\ call[d].pc = "prepare_apply"
        /\ dwpt' = [dwpt EXCEPT ![d] =
              [dw EXCEPT
                 !.pending_updates.deleted_terms =
                     SliceApplyTerms(queue, dw.delete_slice, @,
                                     PrepareDocIdUpto(dw.num_docs_in_ram)),
                 !.delete_slice = PrepareReleaseSlice(dw.delete_slice)]]
        /\ Return(d, call[d], "Frozen")
        /\ UNCHANGED <<notDwptVars, queue, seq_no, global_head, pending_num_docs>>

\* SegmentInfo::set_max_doc(max_doc) on the DWPT's segment_info, a pub
\* field: Err(IllegalState) if max_doc was set already.
SetMaxDoc(d) ==
    \E max_doc \in 0..INDEX_MAX_DOCS :
        LET dw == dwpt[d]
            c  == [BeginCall(d, "set_max_doc") EXCEPT !.max_doc = max_doc]
        IN  /\ Idle(d) /\ ~dw.flushed
            /\ IF dw.max_doc # -1
               THEN /\ UNCHANGED dwpt
                    /\ Return(d, c, "IllegalState")
               ELSE /\ dwpt' = [dwpt EXCEPT ![d] = [dw EXCEPT !.max_doc = max_doc]]
                    /\ Return(d, c, "Done")
            /\ UNCHANGED <<notDwptVars, queue, seq_no, global_head,
                           pending_num_docs>>

\* abort
AbortDwpt(dw) ==
    [dw EXCEPT !.aborted = TRUE, !.pending_updates = ClearBufferedUpdates]

\* abort(), called by the index writer on an aborting error.
Abort(d) ==
    /\ Idle(d) /\ ~dwpt[d].aborted /\ ~dwpt[d].flushed
    /\ dwpt' = [dwpt EXCEPT ![d] = AbortDwpt(@)]
    /\ Return(d, BeginCall(d, "abort"), "Done")
    /\ UNCHANGED <<notDwptVars, queue, seq_no, global_head, pending_num_docs>>

\* LiveDocsFormat::new_live_docs(n) with the bits of ids cleared; live_docs[i]
\* is the bit of doc id i - 1.
ClearedLiveDocs(n, ids) == [i \in 1..n |-> (i - 1) \notin Range(ids)]

\* Variant of FlushLiveDocs: the last buffered doc id is not cleared.
FlushLiveDocsButLast(n, ids) ==
    IF ids # <<>> THEN ClearedLiveDocs(n, SubSeq(ids, 1, Len(ids) - 1))
    ELSE <<>>

\* flush: the live docs of the flush state, left empty if no doc id is
\* buffered.
FlushLiveDocs(n, ids) ==
    IF ids # <<>> THEN ClearedLiveDocs(n, ids) ELSE <<>>

\* flush: del_count_on_flush
DelCountOnFlush(ids) == Len(ids)

\* flush before the aborted test: pin max_doc and drop the doc-id buffer that
\* went into the live docs.
FlushBegin(dw) ==
    [dw EXCEPT !.max_doc = dw.num_docs_in_ram,
               !.flush_saw = dw.pending_updates.deleted_terms,
               !.flush_ids = dw.pending_updates.deleted_doc_ids,
               !.pending_updates.deleted_doc_ids = <<>>]

\* An error of the flush body: no segment.
FlushErr(dw) == [ok |-> FALSE, dw |-> dw]

\* seal_flushed_segment after the .si was written: write the live docs if
\* there are any, set del_count and advance del_gen.
SealLiveDocs(dw, sci, live_docs, del_count, fail) ==
    IF live_docs = <<>>
    THEN [ok |-> TRUE,
          dw |-> [dw EXCEPT !.segment = FlushedSegment(sci, live_docs, del_count)]]
    ELSE IF fail = "live_docs" THEN FlushErr(dw)
    ELSE LET r == SetDelCount(sci, del_count)
             w == [dw EXCEPT !.written = @ \cup {"liv"}]
         IN  IF ~r.ok THEN FlushErr(w)
             ELSE [ok |-> TRUE,
                   dw |-> [w EXCEPT !.segment =
                             FlushedSegment(AdvanceDelGen(r.sci), live_docs,
                                            del_count)]]

\* seal_flushed_segment: size_in_bytes() of the commit info for the
\* FlushInfo, when its files are those of the chain; the compound file if
\* configured, then the .si, then the live docs.
SealFlushedSegment(dw, sci, live_docs, del_count, fail, use_compound_file, length) ==
    IF use_compound_file /\ fail = "compound" THEN FlushErr(dw)
    ELSE LET w1 == IF use_compound_file
                   THEN [dw EXCEPT !.written = @ \cup {"cfs"}] ELSE dw
             sized == SizeInBytes(sci, FilesLength(length, {"chain"}))
         IN  IF fail = "si" THEN FlushErr(w1)
             ELSE SealLiveDocs([w1 EXCEPT !.written = @ \cup {"si"}],
                               sized, live_docs, del_count, fail)

\* do_flush: the chain's flush, the file set, the commit info with all
\* generations at -1, then seal_flushed_segment.
DoFlush(dw, live_docs, del_count, fail, use_compound_file, length) ==
    IF fail = "chain" THEN FlushErr(dw)
    ELSE LET w1 == [dw EXCEPT !.written = @ \cup {"chain"},
                              !.pending_updates.deleted_terms = {}]
         IN  IF fail = "set_files" THEN FlushErr(w1)
             ELSE SealFlushedSegment(
                      [w1 EXCEPT !.pending_updates = ClearBufferedUpdates],
                      SegmentCommitInfoNew(w1.max_doc, 0, -1, -1, -1),
                      live_docs, del_count, fail, use_compound_file, length)

\* Variant of FlushOutcome: a failed flush body does not abort.
FlushOutcomeNoAbort(r) ==
    IF r.ok THEN [r.dw EXCEPT !.flushed = TRUE] ELSE r.dw

\* flush after do_flush returned: abort on an error.
FlushOutcome(r) ==
    IF r.ok THEN [r.dw EXCEPT !.flushed = TRUE] ELSE AbortDwpt(r.dw)

\* Variant of FlushSkips: an aborted DWPT is flushed like any other.
FlushSkipsNever(dw) == FALSE

\* flush: the aborted test.
FlushSkips(dw) == dw.aborted

\* flush().  fail: the step of the flush body that returns an error, if any;
\* use_compound_file: index_writer_config.use_compound_file; length: the
\* lengths of the files written.  The calls made before the aborted test
\* (field_infos.finish, new_live_docs) are taken to succeed.
Flush(d) ==
    /\ Idle(d) /\ ~dwpt[d].flushed
    /\ dwpt[d].num_docs_in_ram > 0
    /\ SliceIsEmpty(dwpt[d].delete_slice)
    /\ \E fail \in FlushSteps \cup {NoFailure}, use_compound_file \in BOOLEAN :
          LET dw  == dwpt[d]
              ids == dw.pending_updates.deleted_doc_ids
              st  == FlushBegin(dw)
              c   == [BeginCall(d, "flush") EXCEPT !.fail = fail]
          IN  /\ (fail = "compound") => use_compound_file
              /\ (fail = "live_docs") => (ids # <<>>)
              /\ IF FlushSkips(dw)
                 THEN /\ fail = NoFailure /\ ~use_compound_file
                      /\ dwpt' = [dwpt EXCEPT ![d] = st]
                      /\ Return(d, c, "None")
                 ELSE \E length \in FileLengths(fail = NoFailure, use_compound_file,
                                                ids # <<>>) :
                        LET r   == DoFlush(st, FlushLiveDocs(dw.num_docs_in_ram, ids),
                                           DelCountOnFlush(ids), fail,
                                           use_compound_file, length)
                            out == FlushOutcome(r)
                        IN  /\ dwpt' = [dwpt EXCEPT ![d] =
                                  IF r.ok
                                  THEN [out EXCEPT !.files_size =
                                          FilesLength(length,
                                                      FilesOfFlushedSegment(out))]
                                  ELSE out]
                            /\ Return(d, c, IF r.ok THEN "Some" ELSE "FlushError")
    /\ UNCHANGED <<notDwptVars, queue, seq_no, global_head, pending_num_docs>>

---------------------------------------------------------------------------
(* DocumentsWriterPerThreadPool, ThreadState, LockedThreadState.           *)
(* Every method of the pool runs under the pool's own lock, so each is one *)
(* action; the only place a method gives the lock up is the condvar wait   *)
(* of new_thread_state.                                                    *)

\* ThreadState::new(None) inside a fresh Mutex: no DWPT; `mutex` is the thread
\* that holds the inner mutex.
NewThreadState == [dwpt |-> FALSE, mutex |-> Unlocked]

\* self.thread_states[idx]
StateAt(idx) == thread_states[idx + 1]

\* thread_states with the inner mutex of state idx held by owner.
WithMutex(idx, owner) ==
    [thread_states EXCEPT ![idx + 1] = [@ EXCEPT !.mutex = owner]]

\* LockedThreadState::new(state, index): the handle stores the Arc and the
\* index.  It takes no lock: the mutex owner of the state is what it was.
LockedThreadState(states, idx) == [states |-> states, index |-> idx]

\* Variant of PopFreeList: the last index is read but left in the list.
PopFreeListKeep(fl) == [idx |-> fl[Len(fl)], rest |-> fl]

\* self.free_list.pop(): the index popped and the list left.
PopFreeList(fl) ==
    [idx |-> fl[Len(fl)], rest |-> SubSeq(fl, 1, Len(fl) - 1)]

\* get_and_lock: the position in the remaining free list of the first state
\* that holds a DWPT, 0 when there is none (the for loop with its break).
FirstInited(fl) ==
    FirstTrue([i \in 1..Len(fl) |-> StateAt(fl[i]).dwpt])

\* Variant of PickFree: the popped index is returned whatever it holds.
PickFreePopped(fl) ==
    [idx |-> PopFreeList(fl).idx, free_list |-> PopFreeList(fl).rest]

\* get_and_lock: the free-list branch.  The popped index is returned unless
\* its state holds no DWPT and another free one does: then that one is
\* returned and the popped index takes its place in the list.
PickFree(fl) ==
    LET p == PopFreeList(fl)
        i == FirstInited(p.rest)
    IN  IF ~StateAt(p.idx).dwpt /\ i # 0
        THEN [idx |-> p.rest[i], free_list |-> [p.rest EXCEPT ![i] = p.idx]]
        ELSE [idx |-> p.idx, free_list |-> p.rest]

\* get_and_lock: the states whose inner mutex the free-list branch locks to
\* read dwpt: the popped one and, when it holds no DWPT, the free ones up to
\* the first that holds one.
Probed(fl) ==
    LET p == PopFreeList(fl)
        i == FirstInited(p.rest)
        k == IF i = 0 THEN Len(p.rest) ELSE i
    IN  {p.idx} \cup (IF StateAt(p.idx).dwpt THEN {} ELSE {p.rest[j] : j \in 1..k})

\* No get_and_lock call has just run.
NoPoolCall == [op |-> "none"]

\* What thread t's call found when it took the pool's lock (get_and_lock) or
\* took it again after the wait (new_thread_state): the free list, the free
\* states that held a DWPT, the number of ThreadStates.
PoolCall(op, t) ==
    [op |-> op, thread |-> t, free0 |-> free_list,
     inited0 |-> {i \in Range(free_list) : StateAt(i).dwpt},
     len0 |-> Len(thread_states)]

\* The threads that hold a ThreadState.
Holders == {t \in PoolThreads : tpc[t] = "holding"}

\* The largest number of simultaneous holders seen, once one more holds.
PeakWithOneMore ==
    IF Cardinality(Holders) + 1 > peak THEN Cardinality(Holders) + 1 ELSE peak

\* Variant of PushNewState: a second state is pushed that nobody is handed.
PushTwoNewStates(t) ==
    /\ thread_states' = thread_states \o <<NewThreadState, NewThreadState>>
    /\ held' = [held EXCEPT ![t] = Len(thread_states)]
    /\ tpc' = [tpc EXCEPT ![t] = "holding"]

\* new_thread_state past the wait: push a fresh state, hand out its index.
PushNewState(t) ==
    LET h == LockedThreadState(Append(thread_states, NewThreadState),
                               Len(thread_states))
    IN  /\ thread_states' = h.states
        /\ held' = [held EXCEPT ![t] = h.index]
        /\ tpc' = [tpc EXCEPT ![t] = "holding"]

\* get_and_lock() by thread t.
GetAndLock(t) ==
    /\ tpc[t] = "out"
    /\ IF free_list # <<>>
       THEN LET r == PickFree(free_list)
                h == LockedThreadState(thread_states, r.idx)
            IN  /\ \A i \in Probed(free_list) : StateAt(i).mutex = Unlocked
                /\ free_list' = r.free_list
                /\ thread_states' = h.states
                /\ held' = [held EXCEPT ![t] = h.index]
                /\ tpc' = [tpc EXCEPT ![t] = "holding"]
                /\ peak' = PeakWithOneMore
       ELSE IF pool_aborted
       THEN /\ tpc' = [tpc EXCEPT ![t] = "waiting"]
            /\ UNCHANGED <<thread_states, free_list, held, peak>>
       ELSE /\ PushNewState(t)
            /\ peak' = PeakWithOneMore
            /\ UNCHANGED free_list
    /\ pool_last' = PoolCall("get_and_lock", t)
    /\ UNCHANGED <<notPoolVars, pool_aborted>>

\* Variant of WakeUp: the wait is left without looking at aborted.
WakeUpAborted(t) ==
    /\ tpc[t] = "waiting"
    /\ PushNewState(t)
    /\ peak' = PeakWithOneMore
    /\ pool_last' = PoolCall("new_thread_state", t)
    /\ UNCHANGED <<notPoolVars, free_list, pool_aborted>>

\* new_thread_state: t returns from cond.wait and finds aborted cleared.
WakeUp(t) ==
    /\ tpc[t] = "waiting"
    /\ ~pool_aborted
    /\ PushNewState(t)
    /\ peak' = PeakWithOneMore
    /\ pool_last' = PoolCall("new_thread_state", t)
    /\ UNCHANGED <<notPoolVars, free_list, pool_aborted>>

\* release(state) by the thread that has the handle.  The handle is moved
\* into the call, so no guard of its mutex is alive.
Release(t) ==
    /\ tpc[t] = "holding"
    /\ StateAt(held[t]).mutex # t
    /\ held[t] \notin Range(free_list)
    /\ free_list' = Append(free_list, held[t])
    /\ held' = [held EXCEPT ![t] = -1]
    /\ tpc' = [tpc EXCEPT ![t] = "out"]
    /\ pool_last' = NoPoolCall
    /\ UNCHANGED <<notPoolVars, thread_states, pool_aborted, peak>>

\* set_abort()
SetAbort ==
    /\ ~pool_aborted
    /\ pool_aborted' = TRUE
    /\ pool_last' = NoPoolCall
    /\ UNCHANGED <<notPoolVars, thread_states, free_list, tpc, held, peak>>

\* clear_abort()
ClearAbort ==
    /\ pool_aborted
    /\ pool_aborted' = FALSE
    /\ pool_last' = NoPoolCall
    /\ UNCHANGED <<notPoolVars, thread_states, free_list, tpc, held, peak>>

\* thread_states[idx].lock() by thread t: through its handle, through
\* locked_state(idx) or through the public thread_states.
LockState(t, idx) ==
    /\ tpc[t] # "waiting"
    /\ \A i \in 0..(Len(thread_states) - 1) : StateAt(i).mutex # t
    /\ StateAt(idx).mutex = Unlocked
    /\ thread_states' = WithMutex(idx, t)
    /\ pool_last' = NoPoolCall
    /\ UNCHANGED <<notPoolVars, free_list, pool_aborted, tpc, held, peak>>

\* t drops the guard of thread_states[idx].
UnlockState(t, idx) ==
    /\ StateAt(idx).mutex = t
    /\ thread_states' = WithMutex(idx, Unlocked)
    /\ pool_last' = NoPoolCall
    /\ UNCHANGED <<notPoolVars, free_list, pool_aborted, tpc, held, peak>>

\* Under the guard of its state, the holder installs a DWPT (dwpt = Some) or
\* takes it out for flush (pool.reset, ThreadState::reset).
SetDwpt(t, some) ==
    /\ tpc[t] = "holding"
    /\ StateAt(held[t]).mutex = t
    /\ StateAt(held[t]).dwpt # some
    /\ thread_states' = [thread_states EXCEPT ![held[t] + 1] = [@ EXCEPT !.dwpt = some]]
    /\ pool_last' = NoPoolCall
    /\ UNCHANGED <<notPoolVars, free_list, pool_aborted, tpc, held, peak>>

---------------------------------------------------------------------------
(* Framed files (core::codec::codec_util) and the streams of core::store.  *)
(* A file is the sequence of its bytes, each 0 .. 255.                     *)

\* write_int / write_long of a value 0 <= v < 2^31: big-endian.
IntBytes(v) ==
    <<(v \div 16777216) % 256, (v \div 65536) % 256, (v \div 256) % 256, v % 256>>

LongBytes(v) == <<0, 0, 0, 0>> \o IntBytes(v)

\* write_vint of a value below 128: one byte.
VIntBytes(v) == <<v>>

\* write_string: the length as a vint, then the characters.
StringBytes(chars) == VIntBytes(Len(chars)) \o chars

\* CODEC_MAGIC 0x3fd76c17 and FOOTER_MAGIC, its complement, as written.
CODEC_MAGIC == <<63, 215, 108, 23>>

FOOTER_MAGIC == <<192, 40, 147, 232>>

\* "Lucene50CompoundData"
DATA_CODEC ==
    <<76, 117, 99, 101, 110, 101, 53, 48, 67, 111, 109, 112, 111, 117, 110,
      100, 68, 97, 116, 97>>

\* "Lucene50CompoundEntries"
ENTRY_CODEC ==
    <<76, 117, 99, 101, 110, 101, 53, 48, 67, 111, 109, 112, 111, 117, 110,
      100, 69, 110, 116, 114, 105, 101, 115>>

VERSION_START == 0

VERSION_CURRENT == VERSION_START

\* The 16 bytes of a segment id: si.get_id(), and the id of another segment.
IdLength == 16

SegmentId == [i \in 1..IdLength |-> 7]

OtherId == [i \in 1..IdLength |-> 9]

\* The checksum of the bytes written or read so far.
RECURSIVE ChecksumOf(_, _, _)
ChecksumOf(bytes, lo, hi) ==
    IF lo > hi THEN 0
    ELSE IF lo = hi THEN bytes[lo] * ((lo % 7) + 1)
    ELSE (ChecksumOf(bytes, lo, (lo + hi) \div 2)
              + ChecksumOf(bytes, (lo + hi) \div 2 + 1, hi)) % ChecksumMod

Checksum(bytes) == ChecksumOf(bytes, 1, Len(bytes))

\* footer_length(): magic, algorithm id, checksum.
FooterLength == 16

\* index_header_length(codec, suffix)
IndexHeaderLength(codec, suffix) ==
    4 + (1 + Len(codec)) + 4 + IdLength + (1 + Len(suffix))

\* write_index_header(out, codec, version, id, suffix): the bytes appended.
IndexHeader(codec, version, id, suffix) ==
    CODEC_MAGIC \o StringBytes(codec) \o IntBytes(version) \o id
        \o StringBytes(suffix)

\* write_footer(out): the bytes appended to a stream that holds `bytes`.
Footer(bytes) ==
    FOOTER_MAGIC \o IntBytes(0)
        \o LongBytes(Checksum(bytes \o FOOTER_MAGIC \o IntBytes(0)))

\* The n bytes of `bytes` from position pos (0-based) on.
BytesAt(bytes, pos, n) == SubSeq(bytes, pos + 1, pos + n)

\* read_int / read_long at pos: the value of big-endian bytes, -1 for a value
\* that is negative or not below 2^31.
IntAt(bytes, pos) ==
    LET b == BytesAt(bytes, pos, 4)
    IN  IF b[1] >= 128 THEN -1
        ELSE ((b[1] * 256 + b[2]) * 256 + b[3]) * 256 + b[4]

LongAt(bytes, pos) ==
    IF BytesAt(bytes, pos, 4) # <<0, 0, 0, 0>> THEN -1
    ELSE IntAt(bytes, pos + 4)

\* read_string at pos: the characters and the position after them; ok is
\* FALSE at end of file.
StringAt(bytes, pos) ==
    IF pos + 1 > Len(bytes) \/ pos + 1 + bytes[pos + 1] > Len(bytes)
    THEN [ok |-> FALSE, v |-> <<>>, pos |-> pos]
    ELSE [ok |-> TRUE, v |-> BytesAt(bytes, pos + 1, bytes[pos + 1]),
          pos |-> pos + 1 + bytes[pos + 1]]

\* The index header read from position 0: magic, codec, version, id, suffix.
\* ok is FALSE when the file ends inside it or the magic is wrong.
HeaderAt(bytes) ==
    LET codec  == StringAt(bytes, 4)
        suffix == StringAt(bytes, codec.pos + 4 + IdLength)
    IN  IF \/ Len(bytes) < 4
           \/ BytesAt(bytes, 0, 4) # CODEC_MAGIC
           \/ ~codec.ok
           \/ codec.pos + 4 + IdLength > Len(bytes)
           \/ ~suffix.ok
        THEN [ok |-> FALSE]
        ELSE [ok |-> TRUE, codec |-> codec.v,
              version |-> IntAt(bytes, codec.pos),
              id |-> BytesAt(bytes, codec.pos + 4, IdLength),
              suffix |-> suffix.v, pos |-> suffix.pos]

\* check_index_header(input, codec, min_version, max_version, id, suffix):
\* Ok(version) and the position after the header, or an error.
CheckIndexHeader(bytes, codec, min_version, max_version, id, suffix) ==
    LET h == HeaderAt(bytes)
    IN  IF /\ h.ok
           /\ h.codec = codec
           /\ h.version >= min_version /\ h.version <= max_version
           /\ h.id = id
           /\ h.suffix = suffix
        THEN [ok |-> TRUE, version |-> h.version, pos |-> h.pos]
        ELSE [ok |-> FALSE]

\* validate_footer at pos: the footer is all that remains, with its magic and
\* algorithm id 0.
ValidFooterAt(bytes, pos) ==
    /\ Len(bytes) - pos = FooterLength
    /\ BytesAt(bytes, pos, 4) = FOOTER_MAGIC
    /\ BytesAt(bytes, pos + 4, 4) = IntBytes(0)

\* check_footer(input) of a checksum input that has read bytes 0 .. pos-1:
\* Ok(checksum) when the footer is valid and its checksum is that of all the
\* bytes before the checksum.
CheckFooter(bytes, pos) ==
    IF /\ ValidFooterAt(bytes, pos)
       /\ BytesAt(bytes, pos + 8, 8) = LongBytes(Checksum(SubSeq(bytes, 1, pos + 8)))
    THEN [ok |-> TRUE, checksum |-> BytesAt(bytes, pos + 8, 8)]
    ELSE [ok |-> FALSE]

\* retrieve_checksum(input): Ok when the file ends in a valid footer.
RetrieveChecksum(bytes) ==
    Len(bytes) >= FooterLength /\ ValidFooterAt(bytes, Len(bytes) - FooterLength)

\* A framed file as a codec writes it: header, body, footer.
FramedFile(codec, id, body) ==
    LET b == IndexHeader(codec, 0, id, <<>>) \o body
    IN  b \o Footer(b)

---------------------------------------------------------------------------
(* Lucene50CompoundFormat and Lucene50CompoundReader                       *)
(* (core::codec::lucene50::compound).  File names are sequences of tokens, *)
(* as for SegmentInfo; a directory is a function from names to files.      *)

\* The character of a one-character token, as read_string and write_string
\* see it.
CharOf(t) == IF t = "_" THEN 95 ELSE IF t = "." THEN 46 ELSE 97

TokenOf(ch) == IF ch = 95 THEN "_" ELSE IF ch = 46 THEN "." ELSE "a"

NameBytes(name) == [i \in 1..Len(name) |-> CharOf(name[i])]

NameOf(chars) == [i \in 1..Len(chars) |-> TokenOf(chars[i])]

\* segment_file_name(&si.name, "", ext)
SegmentFileName(ext) == SegmentName \o <<".", ext>>

DATA_EXTENSION == "cfs"

ENTRIES_EXTENSION == "cfe"

\* Variant of FilePointer: the position is one byte ahead.
FilePointerAhead(bytes) == Len(bytes) + 1

\* file_pointer() of an output that holds `bytes`.
FilePointer(bytes) == Len(bytes)

\* write: the body of the loop for one file of si.files(), on the outputs
\* out.  An error leaves the outputs as they are at that point.
WriteFile(dir, out, file) ==
    LET start_offset == FilePointer(out.data)
        input == dir[file]
        h == HeaderAt(input)
        num_bytes_to_copy == Len(input) - FooterLength - h.pos
        checksum == CheckFooter(input, Len(input) - FooterLength)
        copied == out.data \o SubSeq(input, 1, Len(input) - FooterLength)
        data == copied \o FOOTER_MAGIC \o IntBytes(0) \o checksum.checksum
        length == FilePointer(data) - start_offset
    IN  IF file \notin DOMAIN dir THEN [out EXCEPT !.ok = FALSE]
        ELSE IF ~h.ok \/ h.id # SegmentId THEN [out EXCEPT !.ok = FALSE]
        ELSE IF num_bytes_to_copy < 0
        THEN [out EXCEPT !.ok = FALSE,
                         !.data = @ \o SubSeq(input, 1, h.pos)]
        ELSE IF ~checksum.ok THEN [out EXCEPT !.ok = FALSE, !.data = copied]
        ELSE [ok |-> TRUE,
              data |-> data,
              entries |-> out.entries
                  \o StringBytes(NameBytes(StripSegmentName(file)))
                  \o LongBytes(start_offset) \o LongBytes(length)]

\* write: the loop over si.files(), in the order the HashSet yields them.
RECURSIVE WriteFiles(_, _, _)
WriteFiles(dir, out, order) ==
    IF order = <<>> \/ ~out.ok THEN out
    ELSE WriteFiles(dir, WriteFile(dir, out, Head(order)), Tail(order))

\* Lucene50CompoundFormat::write(dir, si, ctx), with si.files() iterated in
\* `order`: Ok or not, and the bytes of the data and the entries file.
Write(dir, order) ==
    LET out == WriteFiles(dir,
                   [ok |-> TRUE,
                    data |-> IndexHeader(DATA_CODEC, VERSION_CURRENT, SegmentId, <<>>),
                    entries |-> IndexHeader(ENTRY_CODEC, VERSION_CURRENT, SegmentId, <<>>)
                                    \o VIntBytes(Len(order))],
                   order)
    IN  IF ~out.ok THEN out
        ELSE [ok |-> TRUE,
              data |-> out.data \o Footer(out.data),
              entries |-> out.entries \o Footer(out.entries)]

\* The orders in which a HashSet may yield its elements.
Orders(S) ==
    {o \in [1..Cardinality(S) -> S] : \A i, j \in DOMAIN o : i # j => o[i] # o[j]}

\* FileEntry(offset, length)
FileEntry(offset, length) == [offset |-> offset, length |-> length]

\* Variant of PreviousIsSome: no entry is taken for a duplicate.
PreviousIsNone(mappings, id) == FALSE

\* mappings.insert(id, ..) returns Some: mappings held id already.
PreviousIsSome(mappings, id) == id \in DOMAIN mappings

\* read_entries: the loop that reads n entries from position pos on into
\* mappings; a second entry with an id already read is an error.
RECURSIVE ReadEntriesLoop(_, _, _, _)
ReadEntriesLoop(bytes, pos, n, mappings) ==
    IF n = 0 THEN [ok |-> TRUE, pos |-> pos, mappings |-> mappings]
    ELSE LET id == StringAt(bytes, pos)
         IN  IF ~id.ok \/ id.pos + 16 > Len(bytes)
             THEN [ok |-> FALSE, err |-> "EOF"]
             ELSE IF PreviousIsSome(mappings, NameOf(id.v))
             THEN [ok |-> FALSE, err |-> "Duplicate cfs entry id"]
             ELSE ReadEntriesLoop(bytes, id.pos + 16, n - 1,
                      [k \in DOMAIN mappings \cup {NameOf(id.v)} |->
                          IF k = NameOf(id.v)
                          THEN FileEntry(LongAt(bytes, id.pos),
                                         LongAt(bytes, id.pos + 8))
                          ELSE mappings[k]])

\* The function with no argument: HashMap::with_capacity(..)
EmptyMap == [k \in {} |-> FileEntry(0, 0)]

\* Lucene50CompoundReader::read_entries(segment_id, directory, name)
ReadEntries(dir) ==
    LET name == SegmentFileName(ENTRIES_EXTENSION)
        bytes == dir[name]
        h == CheckIndexHeader(bytes, ENTRY_CODEC, VERSION_START,
                              VERSION_CURRENT, SegmentId, <<>>)
        r == ReadEntriesLoop(bytes, h.pos + 1, bytes[h.pos + 1], EmptyMap)
    IN  IF name \notin DOMAIN dir THEN [ok |-> FALSE, err |-> "not found"]
        ELSE IF ~h.ok \/ h.pos + 1 > Len(bytes)
        THEN [ok |-> FALSE, err |-> "corrupt"]
        ELSE IF ~r.ok THEN r
        ELSE IF ~CheckFooter(bytes, r.pos).ok
        THEN [ok |-> FALSE, err |-> "corrupt"]
        ELSE [ok |-> TRUE, version |-> h.version, entries |-> r.mappings]

\* The sum of the lengths of the entries.
RECURSIVE SumOfLengths(_)
SumOfLengths(entries) ==
    IF DOMAIN entries = {} THEN 0
    ELSE LET k == CHOOSE k \in DOMAIN entries : TRUE
         IN  entries[k].length
                 + SumOfLengths([j \in DOMAIN entries \ {k} |-> entries[j]])

\* No reader: new was not called, or returned an error.
NoReader == [ok |-> FALSE, err |-> "none"]

\* Lucene50CompoundReader::new(directory, si, context)
ReaderNew(dir) ==
    LET name == SegmentFileName(DATA_EXTENSION)
        e == ReadEntries(dir)
        expected_length == IndexHeaderLength(DATA_CODEC, <<>>)
                               + SumOfLengths(e.entries) + FooterLength
        input == dir[name]
    IN  IF ~e.ok THEN e
        ELSE IF name \notin DOMAIN dir THEN [ok |-> FALSE, err |-> "not found"]
        ELSE IF ~CheckIndexHeader(input, DATA_CODEC, e.version, e.version,
                                  SegmentId, <<>>).ok
        THEN [ok |-> FALSE, err |-> "corrupt"]
        ELSE IF ~RetrieveChecksum(input) THEN [ok |-> FALSE, err |-> "corrupt"]
        ELSE IF Len(input) # expected_length
        THEN [ok |-> FALSE, err |-> "length should be"]
        ELSE [ok |-> TRUE, name |-> SegmentName, entries |-> e.entries,
              input |-> input, version |-> e.version]

\* list_all(): the names, in any order.
ListAll(rd) == {rd.name \o n : n \in DOMAIN rd.entries}

\* file_length(name)
FileLength(rd, name) ==
    IF StripSegmentName(name) \in DOMAIN rd.entries
    THEN [ok |-> TRUE, v |-> rd.entries[StripSegmentName(name)].length]
    ELSE [ok |-> FALSE, err |-> "File not Found"]

\* Variant of Slice: the slice starts after the data header, whatever the
\* offset.
SliceAfterHeader(input, offset, length) ==
    [ok |-> TRUE,
     v |-> BytesAt(input, IndexHeaderLength(DATA_CODEC, <<>>), length)]

\* IndexInput::slice(description, offset, length)
Slice(input, offset, length) ==
    IF offset < 0 \/ length < 0 \/ offset + length > Len(input)
    THEN [ok |-> FALSE, err |-> "slice out of bounds"]
    ELSE [ok |-> TRUE, v |-> BytesAt(input, offset, length)]

\* open_input(name, context)
OpenInput(rd, name) ==
    IF StripSegmentName(name) \in DOMAIN rd.entries
    THEN Slice(rd.input, rd.entries[StripSegmentName(name)].offset,
               rd.entries[StripSegmentName(name)].length)
    ELSE [ok |-> FALSE, err |-> "No sub-file with id"]

\* dir with file `name` created or replaced.
WithFile(dir, name, bytes) ==
    [n \in DOMAIN dir \cup {name} |-> IF n = name THEN bytes ELSE dir[n]]

\* No container was made in the directory.
NoContainer == [made |-> "none", order |-> <<>>, cut |-> 0]

\* No call was made on the reader.
NoReaderCall == [op |-> "none"]

\* The files of the segment before they are packed: each is written by a
\* codec with the segment's id, but one may carry the id of another segment
\* or a checksum that is not that of its bytes.
SourceFile(body, damage) ==
    IF damage = "id" THEN FramedFile(<<80>>, OtherId, body)
    ELSE IF damage = "checksum"
    THEN LET f == FramedFile(<<80>>, SegmentId, body)
         IN  [f EXCEPT ![Len(f)] = (@ + 1) % 256]
    ELSE FramedFile(<<80>>, SegmentId, body)

\* The bodies of the files: 0 .. MaxBody bytes.
Bodies == {[i \in 1..n |-> i] : n \in 0..MaxBody}

\* The names si.files() may hold: names as add_file stores them.
CompoundFileNames ==
    {<<"_", "a", ".", "a">>, <<"_", "a", "_", "a", ".", "a">>, <<"_", "a", "_">>}

\* Lucene50CompoundFormat::write(dir, si, ctx)
WriteCall ==
    /\ container.made = "none"
    /\ \E order \in Orders(si_files) :
          LET w == Write(directory, order)
          IN  /\ directory' = WithFile(WithFile(directory, SegmentFileName(DATA_EXTENSION), w.data),
                                 SegmentFileName(ENTRIES_EXTENSION), w.entries)
              /\ container' = [made |-> IF w.ok THEN "Ok" ELSE "Err",
                               order |-> order, cut |-> 0]
    /\ UNCHANGED <<notCompoundVars, si_files, reader, reader_last>>

\* The entries an entries file can declare: a stripped name, an offset and a
\* length each.
DeclaredEntries ==
    [name : {<<".", "a">>, <<"_", "a", ".", "a">>},
     offset : {0, MaxOffset}, length : {0, MaxLength}]

\* The records of the entries es, as write writes one.
RECURSIVE EntryRecords(_)
EntryRecords(es) ==
    IF es = <<>> THEN <<>>
    ELSE StringBytes(NameBytes(Head(es).name)) \o LongBytes(Head(es).offset)
             \o LongBytes(Head(es).length) \o EntryRecords(Tail(es))

\* The entries file that declares the entries es, in that order.
EntriesFile(es) ==
    LET b == IndexHeader(ENTRY_CODEC, VERSION_CURRENT, SegmentId, <<>>)
                 \o VIntBytes(Len(es)) \o EntryRecords(es)
    IN  b \o Footer(b)

\* The data file with a payload of n bytes.
DataFile(n) ==
    LET b == IndexHeader(DATA_CODEC, VERSION_CURRENT, SegmentId, <<>>)
                 \o [i \in 1..n |-> 0]
    IN  b \o Footer(b)

\* A file that lost its last `cut` bytes.
CutShort(bytes, cut) == SubSeq(bytes, 1, Len(bytes) - cut)

\* A container of this segment that another writer made is put into the
\* directory: a well-formed entries file with any entries, and a data file
\* framed around any payload length, whole or with its end cut off.
PutContainer ==
    /\ container.made = "none"
    /\ si_files = {}
    /\ \E n \in 0..MaxEntries, payload \in 0..MaxPayload, cut \in {0, MaxCut} :
          \E es \in [1..n -> DeclaredEntries] :
              /\ directory' = WithFile(WithFile(directory, SegmentFileName(DATA_EXTENSION),
                                          CutShort(DataFile(payload), cut)),
                                 SegmentFileName(ENTRIES_EXTENSION), EntriesFile(es))
              /\ container' = [made |-> "put", order |-> es, cut |-> cut]
    /\ UNCHANGED <<notCompoundVars, si_files, reader, reader_last>>

\* Lucene50CompoundReader::new(directory, si, context)
ReaderNewCall ==
    /\ container.made # "none"
    /\ reader = NoReader
    /\ reader' = ReaderNew(directory)
    /\ reader_last' = [op |-> "new"]
    /\ UNCHANGED <<notCompoundVars, directory, si_files, container>>

\* The names the reader's callers ask for: the names si.files() may hold, a
\* name of this segment that it does not hold, and a file of segment _aa.
AskedNames ==
    CompoundFileNames \cup {<<"_", "a", ".", "b">>, <<"_", "a", "a", ".", "a">>}

\* list_all()
ListAllCall ==
    /\ reader.ok
    /\ reader_last' = [op |-> "list_all", res |-> ListAll(reader)]
    /\ UNCHANGED <<notCompoundVars, directory, si_files, container, reader>>

\* file_length(name)
FileLengthCall ==
    /\ reader.ok
    /\ \E name \in AskedNames :
          reader_last' = [op |-> "file_length", name |-> name,
                          res |-> FileLength(reader, name)]
    /\ UNCHANGED <<notCompoundVars, directory, si_files, container, reader>>

\* open_input(name, context)
OpenInputCall ==
    /\ reader.ok
    /\ \E name \in AskedNames :
          reader_last' = [op |-> "open_input", name |-> name,
                          res |-> OpenInput(reader, name)]
    /\ UNCHANGED <<notCompoundVars, directory, si_files, container, reader>>

\* bail!(ErrorKind::UnsupportedOperation(..)): the call returns this error.
Unsupported == [ok |-> FALSE, err |-> "UnsupportedOperation"]

\* unimplemented!(): the call panics and returns nothing.
Unimplemented == [ok |-> FALSE, err |-> "panic"]

\* The operations of Directory that would change a directory. They take &self
\* and do not look at their arguments.
\* obtain_lock(_name)
ObtainLockCall ==
    /\ reader.ok
    /\ reader_last' = [op |-> "obtain_lock", res |-> Unsupported]
    /\ UNCHANGED <<notCompoundVars, directory, si_files, container, reader>>

\* create_temp_output(_prefix, _suffix, _ctx)
CreateTempOutputCall ==
    /\ reader.ok
    /\ reader_last' = [op |-> "create_temp_output", res |-> Unimplemented]
    /\ UNCHANGED <<notCompoundVars, directory, si_files, container, reader>>

\* delete_file(_name)
DeleteFileCall ==
    /\ reader.ok
    /\ reader_last' = [op |-> "delete_file", res |-> Unimplemented]
    /\ UNCHANGED <<notCompoundVars, directory, si_files, container, reader>>

\* sync(_name)
SyncCall ==
    /\ reader.ok
    /\ reader_last' = [op |-> "sync", res |-> Unsupported]
    /\ UNCHANGED <<notCompoundVars, directory, si_files, container, reader>>

\* sync_meta_data()
SyncMetaDataCall ==
    /\ reader.ok
    /\ reader_last' = [op |-> "sync_meta_data", res |-> [ok |-> TRUE]]
    /\ UNCHANGED <<notCompoundVars, directory, si_files, container, reader>>

\* create_output(_name, _ctx)
CreateOutputCall ==
    /\ reader.ok
    /\ reader_last' = [op |-> "create_output", res |-> Unimplemented]
    /\ UNCHANGED <<notCompoundVars, directory, si_files, container, reader>>

\* rename(_source, _dest)
RenameCall ==
    /\ reader.ok
    /\ reader_last' = [op |-> "rename", res |-> Unimplemented]
    /\ UNCHANGED <<notCompoundVars, directory, si_files, container, reader>>

---------------------------------------------------------------------------
(* The specifications.                                                     *)

InitDwpts ==
    /\ queue = <<>>
    /\ seq_no = 0
    /\ global_head = 0
    /\ pending_num_docs = 0
    /\ dwpt = [d \in Dwpts |-> NewDwpt(<<>>)]
    /\ call = [d \in Dwpts |-> NoCall]
    /\ last = NoEvent
    /\ returned = {}
    /\ ret_count = 0

\* DocumentsWriterPerThreadPool::new, no thread inside the pool.
InitPool ==
    /\ thread_states = <<>>
    /\ free_list = <<>>
    /\ pool_aborted = FALSE
    /\ tpc = [t \in PoolThreads |-> "out"]
    /\ held = [t \in PoolThreads |-> -1]
    /\ pool_last = NoPoolCall
    /\ peak = 0

\* The commit info of a segment just flushed, no call made on it.
InitCommit ==
    /\ commit = SegmentCommitInfoNew(0, 0, -1, -1, -1)
    /\ commit_last = NoCommitCall
    /\ skipped = {}

---------------------------------------------------------------------------
(* Generation file names.  A string is a sequence of characters.           *)

\* The digits of base 36.
Digits36 ==
    <<"0", "1", "2", "3", "4", "5", "6", "7", "8", "9", "a", "b", "c", "d",
      "e", "f", "g", "h", "i", "j", "k", "l", "m", "n", "o", "p", "q", "r",
      "s", "t", "u", "v", "w", "x", "y", "z">>

RECURSIVE ToBase36(_)
\* to_base36(n)
ToBase36(n) ==
    IF n < 36 THEN <<Digits36[n + 1]>>
    ELSE ToBase36(n \div 36) \o <<Digits36[(n % 36) + 1]>>

\* The value of a decimal digit, -1 for any other character.
DecimalDigit(ch) ==
    IF \E i \in 1..10 : Digits36[i] = ch
    THEN (CHOOSE i \in 1..10 : Digits36[i] = ch) - 1
    ELSE -1

RECURSIVE DecimalValue(_)
\* The number the decimal digits of s stand for.
DecimalValue(s) ==
    IF s = <<>> THEN 0
    ELSE 10 * DecimalValue(SubSeq(s, 1, Len(s) - 1)) + DecimalDigit(s[Len(s)])

\* str::parse::<i64>() of a string without sign: Err if the string is empty
\* or holds a character that is no decimal digit.
ParseInt(s) ==
    IF s = <<>> \/ \E i \in 1..Len(s) : DecimalDigit(s[i]) = -1
    THEN [ok |-> FALSE, v |-> 0]
    ELSE [ok |-> TRUE, v |-> DecimalValue(s)]

RECURSIVE SplitAtUnderscores(_)
\* s.split("_"): the pieces of s between the underscores.
SplitAtUnderscores(s) ==
    IF \E i \in 1..Len(s) : s[i] = "_"
    THEN LET i == CHOOSE i \in 1..Len(s) :
                     s[i] = "_" /\ \A j \in 1..(i - 1) : s[j] # "_"
         IN  <<SubSeq(s, 1, i - 1)>>
                 \o SplitAtUnderscores(SubSeq(s, i + 1, Len(s)))
    ELSE <<s>>

\* strip_extension: the name up to its first '.'.
StripExtension(filename) ==
    IF \E i \in 1..Len(filename) : filename[i] = "."
    THEN LET i == CHOOSE i \in 1..Len(filename) :
                     filename[i] = "." /\ \A j \in 1..(i - 1) : filename[j] # "."
         IN  SubSeq(filename, 1, i - 1)
    ELSE filename

\* file_name_from_generation(base, ext, gen); for gen = 0 it is
\* segment_file_name(base, "", ext).
FileNameFromGeneration(base, ext, gen) ==
    IF gen = 0
    THEN base \o (IF ext # <<>> THEN <<".">> \o ext ELSE <<>>)
    ELSE base \o <<"_">> \o ToBase36(gen)
              \o (IF ext # <<>> THEN <<".">> \o ext ELSE <<>>)

\* parse_generation(filename)
ParseGeneration(filename) ==
    LET parts == SplitAtUnderscores(Tail(StripExtension(filename)))
    IN  IF Len(parts) = 2 \/ Len(parts) = 4
        THEN ParseInt(parts[2])
        ELSE [ok |-> TRUE, v |-> 0]

\* The segment names, "_" and the segment's number in base 36.
SegmentNames == {<<"_", "a">>, <<"_", "1">>, <<"_", "2", "z">>}

\* The extensions: none, of the live docs, of the field infos.
Extensions == {<<>>, <<"l", "i", "v">>, <<"f", "n", "m">>}

NoResult == [ok |-> FALSE, v |-> -1]

NoGenerationName ==
    [base |-> <<>>, ext |-> <<>>, gen |-> 0, name |-> <<>>, parsed |-> NoResult]

\* file_name_from_generation(base, ext, gen) is called.
FileNameFromGenerationCall ==
    /\ gen_name.base # <<>>
    /\ gen_name.name = <<>>
    /\ gen_name' = [gen_name EXCEPT !.name =
                      FileNameFromGeneration(gen_name.base, gen_name.ext,
                                             gen_name.gen)]
    /\ UNCHANGED notNameVars

\* parse_generation is called on the name made.
ParseGenerationCall ==
    /\ gen_name.name # <<>>
    /\ gen_name.parsed = NoResult
    /\ gen_name' = [gen_name EXCEPT !.parsed = ParseGeneration(gen_name.name)]
    /\ UNCHANGED notNameVars

\* SegmentInfo::new: no file, no call made.
InitFiles ==
    /\ set_files = {}
    /\ files_last = NoFilesCall
    /\ files_calls = 0

\* An empty directory, no container, no reader.
InitCompound ==
    /\ directory = <<>>
    /\ si_files = {}
    /\ container = NoContainer
    /\ reader = NoReader
    /\ reader_last = NoReaderCall

\* No generation file name is being made.
InitNoName == gen_name = NoGenerationName

Init ==
    InitDwpts /\ InitPool /\ InitCommit /\ InitFiles /\ InitCompound /\ InitNoName

\* The base, the extension and the generation of a generation file name.
InitNames ==
    /\ InitDwpts /\ InitPool /\ InitCommit /\ InitFiles /\ InitCompound
    /\ \E base \in SegmentNames, ext \in Extensions, gen \in 0..MaxGeneration :
          gen_name = [NoGenerationName EXCEPT !.base = base, !.ext = ext,
                                              !.gen = gen]

\* A segment just flushed: the directory holds the files of si.files(), at
\* most one of them damaged.
InitSegmentFiles ==
    /\ InitDwpts /\ InitPool /\ InitCommit /\ InitFiles /\ InitNoName
    /\ si_files \in SUBSET CompoundFileNames
    /\ \E body \in [si_files -> Bodies], damaged \in si_files \cup {<<>>},
          damage \in {"id", "checksum"} :
          directory = [f \in si_files |->
                    SourceFile(body[f], IF f = damaged THEN damage ELSE "none")]
    /\ container = NoContainer
    /\ reader = NoReader
    /\ reader_last = NoReaderCall

\* A commit info as SegmentCommitInfo::new makes it, fresh or read from a
\* commit with the generations it was written with.
InitGen ==
    /\ InitDwpts /\ InitPool /\ InitFiles /\ InitCompound /\ InitNoName
    /\ \E del_gen \in -1..MaxInitGen, field_infos_gen \in -1..MaxInitGen,
          doc_values_gen \in -1..MaxInitGen :
          \E max_doc \in 0..MaxInitDoc :
              commit = SegmentCommitInfoNew(max_doc, 0, del_gen,
                                            field_infos_gen, doc_values_gen)
    /\ commit_last = NoCommitCall
    /\ skipped = {}

\* A call that draws a seq-no is started only while fewer than MaxSeqNo
\* (MaxFlushSeqNo) were handed out.
MayDraw == seq_no < MaxSeqNo

MayDrawFlush == seq_no < MaxFlushSeqNo

\* Indexing: the index writer's deletes and update calls on every DWPT.
Next ==
    \/ MayDraw /\ AddDeleteTerm
    \/ \E d \in Dwpts : MayDraw /\ UpdateDocument(d)
    \/ \E d \in Dwpts : MayDraw /\ UpdateDocuments(d)
    \/ \E d \in Dwpts : ReserveAdd(d)
    \/ \E d \in Dwpts : ReserveLoad(d)
    \/ \E d \in Dwpts : ReserveSub(d)
    \/ \E d \in Dwpts : ProcessDocument(d)
    \/ \E d \in Dwpts : ProcessBlockDocument(d)
    \/ \E d \in Dwpts : FinishDocument(d)
    \/ \E d \in Dwpts : BlockFinish(d)

Spec == Init /\ [][Next]_vars

\* The DWPT whose whole life SpecFlush follows.
FlushDwpt == "A"

\* The caller keeps to "the DWPT must not be reused" after an abort.
NotReused == ~dwpt[FlushDwpt].aborted

\* The life of one DWPT: the index writer's deletes and every call on
\* FlushDwpt, by a caller that does not update an aborted DWPT.
NextFlush ==
    \/ MayDrawFlush /\ AddDeleteTerm
    \/ MayDrawFlush /\ NotReused /\ UpdateDocument(FlushDwpt)
    \/ MayDrawFlush /\ NotReused /\ UpdateDocuments(FlushDwpt)
    \/ ReserveAdd(FlushDwpt)
    \/ ReserveLoad(FlushDwpt)
    \/ ReserveSub(FlushDwpt)
    \/ ProcessDocument(FlushDwpt)
    \/ ProcessBlockDocument(FlushDwpt)
    \/ FinishDocument(FlushDwpt)
    \/ BlockFinish(FlushDwpt)
    \/ PrepareFlush(FlushDwpt)
    \/ PrepareFlushApply(FlushDwpt)
    \/ Flush(FlushDwpt)
    \/ Abort(FlushDwpt)

SpecFlush == Init /\ [][NextFlush]_vars

\* The life of one DWPT whose caller goes on calling it after an abort.
NextReuse ==
    \/ MayDraw /\ AddDeleteTerm
    \/ MayDraw /\ UpdateDocument(FlushDwpt)
    \/ MayDraw /\ UpdateDocuments(FlushDwpt)
    \/ ReserveAdd(FlushDwpt)
    \/ ReserveLoad(FlushDwpt)
    \/ ReserveSub(FlushDwpt)
    \/ ProcessDocument(FlushDwpt)
    \/ ProcessBlockDocument(FlushDwpt)
    \/ FinishDocument(FlushDwpt)
    \/ BlockFinish(FlushDwpt)
    \/ PrepareFlush(FlushDwpt)
    \/ PrepareFlushApply(FlushDwpt)
    \/ Flush(FlushDwpt)
    \/ Abort(FlushDwpt)

SpecReuse == Init /\ [][NextReuse]_vars

\* One DWPT fed single documents by a caller that does not update it after
\* an abort, and the set_max_doc calls on its SegmentInfo.
NextSegment ==
    \/ MayDraw /\ NotReused /\ UpdateDocument(FlushDwpt)
    \/ ReserveLoad(FlushDwpt)
    \/ ReserveSub(FlushDwpt)
    \/ ProcessDocument(FlushDwpt)
    \/ FinishDocument(FlushDwpt)
    \/ SetMaxDoc(FlushDwpt)
    \/ Flush(FlushDwpt)
    \/ Abort(FlushDwpt)

SpecSegment == Init /\ [][NextSegment]_vars

\* The pool: every thread may call get_and_lock and release and lock any
\* state, while the writer sets and clears the abort flag.
NextPool ==
    \/ \E t \in PoolThreads : GetAndLock(t)
    \/ \E t \in PoolThreads : WakeUp(t)
    \/ \E t \in PoolThreads : Release(t)
    \/ SetAbort
    \/ ClearAbort
    \/ \E t \in PoolThreads, idx \in 0..(Len(thread_states) - 1) : LockState(t, idx)
    \/ \E t \in PoolThreads, idx \in 0..(Len(thread_states) - 1) : UnlockState(t, idx)
    \/ \E t \in PoolThreads, some \in BOOLEAN : SetDwpt(t, some)

SpecPool == Init /\ [][NextPool]_vars

\* The pool when the writer never aborts: get_and_lock and release in any
\* interleaving, each handle released once by the thread that obtained it.
NextPoolNoAbort ==
    \/ \E t \in PoolThreads : GetAndLock(t)
    \/ \E t \in PoolThreads : Release(t)
    \/ \E t \in PoolThreads, idx \in 0..(Len(thread_states) - 1) : LockState(t, idx)
    \/ \E t \in PoolThreads, idx \in 0..(Len(thread_states) - 1) : UnlockState(t, idx)
    \/ \E t \in PoolThreads, some \in BOOLEAN : SetDwpt(t, some)

SpecPoolNoAbort == Init /\ [][NextPoolNoAbort]_vars

\* The pool with the scheduling of its waiters: clear_abort and release
\* notify all waiters, and a notified waiter that keeps finding the pool's
\* lock free and aborted cleared leaves the wait.  Nothing obliges the writer
\* to call clear_abort, nor a thread to call get_and_lock or release.
SpecPoolFair == SpecPool /\ \A t \in PoolThreads : WF_vars(WakeUp(t))

\* The calls that move the generations and the del_count of one commit info.
NextGen ==
    \/ AdvanceDelGenCall
    \/ AdvanceNextWriteDelGenCall
    \/ AdvanceFieldInfosGenCall
    \/ SetDelCountCall

SpecGen == InitGen /\ [][NextGen]_vars

\* The calls that change the file set of one SegmentInfo.
NextFiles ==
    \/ AddFileCall
    \/ AddFilesCall
    \/ SetFilesCall

SpecFiles == Init /\ [][NextFiles]_vars

\* A generation file name is made and parsed.
NextNames ==
    \/ FileNameFromGenerationCall
    \/ ParseGenerationCall

SpecNames == InitNames /\ [][NextNames]_vars

\* The compound format packs the files of a flushed segment, or a container
\* made elsewhere is found in the directory; a reader is opened on it and
\* asked for its files.
NextCompound ==
    \/ WriteCall
    \/ PutContainer
    \/ ReaderNewCall
    \/ ListAllCall
    \/ FileLengthCall
    \/ OpenInputCall
    \/ ObtainLockCall
    \/ CreateTempOutputCall
    \/ DeleteFileCall
    \/ SyncCall
    \/ SyncMetaDataCall
    \/ CreateOutputCall
    \/ RenameCall

SpecCompound == InitSegmentFiles /\ [][NextCompound]_vars

---------------------------------------------------------------------------
(* Properties.  A property about what a call returns is stated on `last`,  *)
(* the call that returned in the step leading to the state.                *)

LastDwpt == dwpt[last.d]

\* The call that just returned was `op` on a DWPT and returned `status`.
Returned(op, status) ==
    last.d \in Dwpts /\ last.call.op = op /\ last.status = status

\* Node i of the queue is recorded in d's deleted terms with doc_id_upto upto.
Stamped(d, i, upto) ==
    [node |-> i, term |-> queue[i].term, upto |-> upto]
        \in dwpt[d].pending_updates.deleted_terms

\* d's buffered deletes make node i delete local doc id k.
Covered(d, i, k) ==
    \E e \in dwpt[d].pending_updates.deleted_terms : e.node = i /\ k < e.upto

\* The ids ids gained over ids0.
Gained(ids, ids0) == {ids[i] : i \in (Len(ids0) + 1)..Len(ids)}

RECURSIVE SumDocsInRam(_)
SumDocsInRam(S) ==
    IF S = {} THEN 0
    ELSE LET d == CHOOSE x \in S : TRUE
         IN  dwpt[d].num_docs_in_ram + SumDocsInRam(S \ {d})

\* The DWPTs that reserved a doc id they have not counted in num_docs_in_ram
\* yet (or are about to give back).
Uncounted ==
    {d \in Dwpts : call[d].pc \in {"reserve_load", "reserve_sub", "process", "finish"}}

---------------------------------------------------------------------------
\* C1: the seq-nos returned to the callers of update_document,
\* update_documents and the delete append are pairwise distinct, and the
\* seq-no an operation returns is greater than every seq-no returned before
\* it, hence than that of every operation that completed before it started.
SeqNosDistinctAndOrdered ==
    /\ Cardinality(returned) = ret_count
    /\ (last.status = "Ok") =>
          /\ last.seq \in returned
          /\ \A s \in returned \ {last.seq} : s < last.seq

\* An update on a DWPT returned a seq-no after another operation had
\* returned one, while the other DWPT is about to draw its own.
SeqNosInterleaved ==
    /\ last.status = "Ok"
    /\ last.d \in Dwpts
    /\ ret_count >= 2
    /\ \E e \in Dwpts \ {last.d} : call[e].pc \in {"finish", "block_finish"}

\* C2: a delete appended with seq-no S by another writer (or by the DWPT
\* itself as a del_term) and consumed by a DWPT's slice deletes
\* exactly the documents of that DWPT that finished with a seq-no below S: a
\* document finished before S is under the recorded doc_id_upto, a document
\* finished after S is not.
DeleteCoversExactlyEarlierDocs ==
    \A d \in Dwpts :
        (~dwpt[d].aborted /\ ~dwpt[d].flushed) =>
            \A i \in 1..dwpt[d].delete_slice.head :
                \A k \in 1..Len(dwpt[d].doc_seq) :
                    (dwpt[d].doc_seq[k] # 0) =>
                        ((dwpt[d].doc_seq[k] < queue[i].seq) <=> Covered(d, i, k - 1))

\* A DWPT recorded a delete that another writer appended, between two of its
\* documents: the earlier document is covered, the later one is not.
DeleteBetweenTwoDocs ==
    \E d \in Dwpts :
        \E e \in dwpt[d].pending_updates.deleted_terms :
            /\ queue[e.node].seq \notin Range(dwpt[d].doc_seq)
            /\ \E k \in 1..Len(dwpt[d].doc_seq) :
                  dwpt[d].doc_seq[k] # 0 /\ k - 1 < e.upto
            /\ \E k \in 1..Len(dwpt[d].doc_seq) :
                  dwpt[d].doc_seq[k] > queue[e.node].seq /\ k - 1 >= e.upto

\* C3 as stated: when prepare_flush returns, every delete another thread
\* enqueued before its freeze is recorded in the DWPT's pending_updates with
\* doc_id_upto = num_docs_in_ram and is in the frozen updates returned, and
\* no delete enqueued after the freeze is recorded before or during the
\* flush.  (A node whose seq-no a document of the DWPT finished with is the
\* DWPT's own del_term.)
PrepareFlushAppliesEveryEarlierDelete ==
    /\ Returned("prepare_flush", "Frozen") =>
          \A i \in 1..LastDwpt.freeze_at :
              (queue[i].seq \notin Range(LastDwpt.doc_seq)) =>
                  /\ Stamped(last.d, i, LastDwpt.num_docs_in_ram)
                  /\ i \in last.call.frozen
    /\ \A d \in Dwpts :
          Prepared(d) =>
              \A e \in dwpt[d].pending_updates.deleted_terms \cup dwpt[d].flush_saw :
                  e.node <= dwpt[d].freeze_at

\* C3, amended: when prepare_flush returns, every delete enqueued before its
\* freeze that the DWPT's slice had not consumed yet is recorded in the
\* DWPT's pending_updates with doc_id_upto = num_docs_in_ram, every delete
\* enqueued since the previous freeze is in the frozen updates returned, and
\* no delete enqueued after the freeze is recorded before or during the
\* flush.  (A delete an earlier finish_document consumed keeps the smaller
\* bound it was given then, or none if it was dropped by a reset.)
PrepareFlushAppliesPendingDeletes ==
    /\ Returned("prepare_flush", "Frozen") =>
          /\ \A i \in (last.call.slice0.tail + 1)..LastDwpt.freeze_at :
                Stamped(last.d, i, LastDwpt.num_docs_in_ram)
          /\ \A i \in (last.call.gh0 + 1)..LastDwpt.freeze_at :
                i \in last.call.frozen
    /\ \A d \in Dwpts :
          Prepared(d) =>
              \A e \in dwpt[d].pending_updates.deleted_terms \cup dwpt[d].flush_saw :
                  e.node <= dwpt[d].freeze_at

\* prepare_flush returned on a DWPT that had consumed a delete before, with
\* a delete pending at the freeze and another one enqueued after the freeze.
PrepareFlushAmongDeletes ==
    /\ Returned("prepare_flush", "Frozen")
    /\ last.call.slice0.tail >= 1
    /\ LastDwpt.freeze_at > last.call.slice0.tail
    /\ Len(queue) > LastDwpt.freeze_at

\* C4: no two threads hold the same ThreadState: an index get_and_lock
\* handed to one thread is not handed to another before it is released,
\* and is in the free list only while no thread has it.
NoTwoHoldersOfOneState ==
    /\ \A t, u \in PoolThreads :
          (t # u /\ tpc[t] = "holding" /\ tpc[u] = "holding") => (held[t] # held[u])
    /\ \A t \in PoolThreads :
          (tpc[t] = "holding") => (held[t] \notin Range(free_list))

\* Two threads hold states while a third state, released and holding a DWPT,
\* is free: get_and_lock served from the free list and by new_thread_state.
TwoHoldersAndAFreeState ==
    /\ \E t, u \in PoolThreads :
          t # u /\ tpc[t] = "holding" /\ tpc[u] = "holding" /\ held[t] < held[u]
                /\ held[u] = 2
    /\ Len(free_list) = 1
    /\ StateAt(free_list[1]).dwpt

\* C5 as stated: from the return of get_and_lock until release, the inner
\* mutex of the returned ThreadState is held for the thread that got it, so
\* that no other thread can lock it.
HolderOwnsInnerMutex ==
    \A t \in PoolThreads :
        (tpc[t] = "holding") => (StateAt(held[t]).mutex = t)

\* C6: when indexing the j-th document of a block fails in update_documents
\* on a DWPT that held n0 documents, the call returns the error with
\* num_docs_in_ram = n0 + j, the deleted doc ids it had before kept and the
\* ids n0 .. n0+j-1 gained, nothing in flight (no later document indexed),
\* and the DWPT not aborted.
BlockFailureMarksIndexedDocs ==
    Returned("update_documents", "IndexingError") =>
        LET j    == last.call.doc_count
            ids  == LastDwpt.pending_updates.deleted_doc_ids
            ids0 == last.call.ids0
        IN  /\ j >= 1
            /\ LastDwpt.num_docs_in_ram = last.call.n0 + j
            /\ Len(ids) = Len(ids0) + j
            /\ SubSeq(ids, 1, Len(ids0)) = ids0
            /\ Gained(ids, ids0) = last.call.n0..(last.call.n0 + j - 1)
            /\ Idle(last.d)
            /\ ~LastDwpt.aborted

\* update_documents failed on the second document of a block, on a DWPT that
\* held a document already.
BlockFailedOnSecondDoc ==
    /\ Returned("update_documents", "IndexingError")
    /\ last.call.doc_count = 2
    /\ last.call.n0 >= 1

\* C7: when the indexing chain fails on the document of update_document on a
\* DWPT holding n0 documents, the call returns the error, doc id n0 is added
\* to the deleted doc ids, num_docs_in_ram is n0 + 1, the DWPT is not
\* aborted, and the delete slice and the buffered delete terms are as before.
DocFailureMarksDocOnly ==
    Returned("update_document", "IndexingError") =>
        /\ LastDwpt.pending_updates.deleted_doc_ids = Append(last.call.ids0, last.call.n0)
        /\ LastDwpt.num_docs_in_ram = last.call.n0 + 1
        /\ ~LastDwpt.aborted
        /\ LastDwpt.delete_slice = last.call.slice0
        /\ LastDwpt.pending_updates.deleted_terms = last.call.terms0

\* update_document failed in the chain on a DWPT that held a document and a
\* buffered delete term, with a delete in the queue its slice has not seen.
DocFailedWithDeletesAround ==
    /\ Returned("update_document", "IndexingError")
    /\ last.call.n0 >= 1
    /\ last.call.terms0 # {}
    /\ Len(queue) > last.call.slice0.tail

\* C8: an update_document call that starts with pending_num_docs at
\* INDEX_MAX_DOCS (every reservation counted in it settled) never hands its
\* document to the indexing chain and returns IllegalArgument, leaving
\* num_docs_in_ram, the deleted doc ids, the delete slice and the buffered
\* delete terms as they were and its own count taken back: pending_num_docs
\* is INDEX_MAX_DOCS again, plus the reservations other DWPTs have in flight.
FullCapRejectsDocument ==
    /\ \A d \in Dwpts :
          (call[d].op = "update_document" /\ call[d].full0) =>
              (call[d].pc \in {"reserve_load", "reserve_sub"})
    /\ (last.d \in Dwpts /\ last.call.op = "update_document" /\ last.call.full0) =>
          /\ last.status = "IllegalArgument"
          /\ pending_num_docs =
                INDEX_MAX_DOCS + Cardinality({e \in Dwpts : Reserving(e)})
          /\ LastDwpt.num_docs_in_ram = last.call.n0
          /\ LastDwpt.pending_updates.deleted_doc_ids = last.call.ids0
          /\ LastDwpt.pending_updates.deleted_terms = last.call.terms0
          /\ LastDwpt.delete_slice = last.call.slice0

\* update_document was rejected at the cap on a DWPT that holds a document,
\* the other DWPT holding the rest, and the counter is at the cap.
RejectedAtFullCap ==
    /\ Returned("update_document", "IllegalArgument")
    /\ last.call.full0
    /\ last.call.n0 >= 1
    /\ \E e \in Dwpts \ {last.d} : dwpt[e].num_docs_in_ram >= 1
    /\ pending_num_docs = INDEX_MAX_DOCS

\* C9: pending_num_docs equals the sum of the DWPTs' num_docs_in_ram plus
\* the reservations made and not yet counted; so whenever no call is in
\* flight, after calls that succeeded, failed in the chain or were rejected,
\* the counter has grown by exactly the sum of num_docs_in_ram.
PendingDocsMatchDocsInRam ==
    /\ pending_num_docs = SumDocsInRam(Dwpts) + Cardinality(Uncounted)
    /\ (\A d \in Dwpts : Idle(d)) => (pending_num_docs = SumDocsInRam(Dwpts))

\* No call in flight after a rejection at the cap, both DWPTs hold
\* documents, and one of them holds a document that failed in the chain.
QuiescentAfterFailureAndRejection ==
    /\ last.status = "IllegalArgument"
    /\ \A d \in Dwpts : Idle(d) /\ dwpt[d].num_docs_in_ram >= 1
    /\ \E d \in Dwpts : dwpt[d].pending_updates.deleted_doc_ids # <<>>
    /\ \E d \in Dwpts : \E k \in 1..Len(dwpt[d].doc_seq) : dwpt[d].doc_seq[k] # 0

\* C10: when update_document(doc, Some(t)) returns Ok on a DWPT that held
\* n0 >= 1 documents, t is the node appended last, after the document was
\* indexed, with the seq-no returned, and it is recorded in pending_updates
\* with doc_id_upto = n0 and no other bound: it covers doc ids 0 .. n0-1 and
\* not the document just added, which has id n0.
DelTermCoversEarlierDocsOnly ==
    (/\ Returned("update_document", "Ok")
     /\ last.call.del_term # NoTerm
     /\ last.call.n0 >= 1) =>
        LET i == Len(queue)
        IN  /\ i > last.call.qlen_indexed
            /\ queue[i] = Node(last.call.del_term, last.seq)
            /\ Stamped(last.d, i, last.call.n0)
            /\ \A e \in LastDwpt.pending_updates.deleted_terms :
                  (e.node = i) => (e.upto = last.call.n0)
            /\ LastDwpt.num_docs_in_ram = last.call.n0 + 1
            /\ Covered(last.d, i, last.call.n0 - 1)
            /\ ~Covered(last.d, i, last.call.n0)

\* update_document with a del_term returned Ok on a DWPT holding a document,
\* after the index writer appended a delete while the document was indexed.
DelTermAfterConcurrentDelete ==
    /\ Returned("update_document", "Ok")
    /\ last.call.del_term # NoTerm
    /\ last.call.n0 >= 1
    /\ last.call.qlen_indexed > last.call.slice0.tail


---------------------------------------------------------------------------
\* C11: when update_documents returns Ok for a batch of k documents on a
\* DWPT that held n0, the DWPT holds n0 + k documents, the deleted-doc-id
\* buffer is what it was (no document of the batch is in it), and every
\* delete the call applied, the deletes queued since the slice was last
\* drained and the del_term appended last with the seq-no returned, is
\* recorded with doc_id_upto = n0 and nothing else was recorded.
BlockSuccessKeepsDocsAndBoundsDeletes ==
    Returned("update_documents", "Ok") =>
        LET c  == last.call
            pu == LastDwpt.pending_updates
        IN  /\ LastDwpt.num_docs_in_ram = c.n0 + c.doc_count
            /\ pu.deleted_doc_ids = c.ids0
            /\ \A k \in c.n0..(c.n0 + c.doc_count - 1) :
                  k \notin Range(pu.deleted_doc_ids) \ Range(c.ids0)
            /\ \A i \in (c.slice0.head + 1)..Len(queue) :
                  Stamped(last.d, i, c.n0)
            /\ \A e \in pu.deleted_terms \ c.terms0 :
                  e.upto = c.n0 /\ e.node > c.slice0.head
            /\ c.terms0 \subseteq pu.deleted_terms
            /\ (c.del_term # NoTerm) =>
                  queue[Len(queue)] = Node(c.del_term, last.seq)
            /\ SliceIsEmpty(LastDwpt.delete_slice)

\* update_documents returned Ok for two documents and a del_term on a DWPT
\* that held a document, having picked up a delete queued by the writer.
BlockOfTwoWithDelTermAndQueuedDelete ==
    /\ Returned("update_documents", "Ok")
    /\ last.call.doc_count = 2
    /\ last.call.n0 >= 1
    /\ last.call.del_term # NoTerm
    /\ Len(queue) >= last.call.slice0.head + 2


---------------------------------------------------------------------------
\* C12: once prepare_flush has returned on a DWPT, its delete slice is empty,
\* an empty range at the node the freeze stopped at, and it stays so in every
\* later state in which no call is running on the DWPT, whatever deletes the
\* writer appends to the queue meanwhile; so the delete_slice.is_empty()
\* that flush requires holds whenever flush is called after prepare_flush.
PreparedSliceStaysEmpty ==
    \A d \in Dwpts :
        (Prepared(d) /\ Idle(d)) =>
            /\ SliceIsEmpty(dwpt[d].delete_slice)
            /\ dwpt[d].delete_slice.tail = dwpt[d].freeze_at

\* flush returned a segment for a DWPT whose prepare_flush drained a
\* non-empty slice and after whose freeze the writer appended a delete.
FlushAfterDeleteAppendedSinceFreeze ==
    /\ Returned("flush", "Some")
    /\ Len(queue) > LastDwpt.freeze_at
    /\ LastDwpt.flush_saw # {}
    /\ SliceIsEmpty(last.call.slice0)


---------------------------------------------------------------------------
\* The doc ids of d whose call returned an error: the documents that failed
\* in the chain and the documents of a block that failed.
FailedDocs(d) ==
    {k \in 0..(dwpt[d].num_docs_in_ram - 1) : dwpt[d].doc_seq[k + 1] = 0}

\* C13: when flush returns a segment for a DWPT that holds N > 0 documents
\* of which K failed, the segment has max_doc = N and del_count = K, its live
\* docs are empty if K = 0 and otherwise have length N with exactly the bits
\* of the failed doc ids cleared (N - K bits set), and the DWPT's
\* deleted-doc-id buffer is empty afterwards.
FlushedSegmentCountsFailedDocs ==
    Returned("flush", "Some") =>
        LET seg == LastDwpt.segment
            N   == last.call.n0
            F   == FailedDocs(last.d)
            K   == Cardinality(F)
        IN  /\ N > 0
            /\ seg.flushed
            /\ seg.segment_info.max_doc = N
            /\ LastDwpt.max_doc = N
            /\ seg.del_count = K
            /\ (K = 0) <=> (seg.live_docs = <<>>)
            /\ (K > 0) =>
                  /\ Len(seg.live_docs) = N
                  /\ \A k \in 0..(N - 1) : seg.live_docs[k + 1] <=> (k \notin F)
                  /\ Cardinality({i \in 1..N : seg.live_docs[i]}) = N - K
            /\ LastDwpt.pending_updates.deleted_doc_ids = <<>>

\* flush returned a segment after prepare_flush for a DWPT holding three
\* documents of which some failed and some did not.
FlushedThreeDocsSomeFailed ==
    /\ Returned("flush", "Some")
    /\ Prepared(last.d)
    /\ last.call.n0 = 3
    /\ FailedDocs(last.d) # {}
    /\ Cardinality(FailedDocs(last.d)) < 3
    /\ Len(last.call.ids0) = Cardinality(FailedDocs(last.d))


---------------------------------------------------------------------------
\* C14: the SegmentCommitInfo of the segment a flush returns has
\* field_infos_gen = -1 and doc_values_gen = -1; if no document failed, no
\* live-docs file was written, del_gen = -1 and del_count = 0; otherwise the
\* live-docs file was written, del_count is the number of failed documents
\* and del_gen was advanced exactly once from the fresh commit info, to the
\* first generation to write, with next_write_del_gen one above it.  (The
\* cached size is no generation and is left out of the comparison.)
FlushedCommitInfoGenerations ==
    Returned("flush", "Some") =>
        LET sci   == LastDwpt.segment.segment_info
            K     == Cardinality(FailedDocs(last.d))
            fresh == SegmentCommitInfoNew(last.call.n0, 0, -1, -1, -1)
        IN  /\ sci.field_infos_gen = -1
            /\ sci.doc_values_gen = -1
            /\ sci.next_write_field_infos_gen = fresh.next_write_field_infos_gen
            /\ sci.next_write_doc_values_gen = fresh.next_write_doc_values_gen
            /\ IF K = 0
               THEN /\ "liv" \notin LastDwpt.written
                    /\ sci.del_gen = -1
                    /\ sci.del_count = 0
                    /\ [sci EXCEPT !.size_in_bytes = -1] = fresh
               ELSE /\ "liv" \in LastDwpt.written
                    /\ sci.del_count = K
                    /\ sci.del_gen = fresh.next_write_del_gen
                    /\ sci.del_gen = 1
                    /\ sci.next_write_del_gen = sci.del_gen + 1

\* flush returned a segment packed in a compound file whose commit info has
\* a live-docs generation.
FlushedWithLiveDocsGeneration ==
    /\ Returned("flush", "Some")
    /\ LastDwpt.segment.segment_info.del_gen # -1
    /\ LastDwpt.segment.segment_info.del_count = 2
    /\ LastDwpt.written = {"chain", "cfs", "si", "liv"}


---------------------------------------------------------------------------
\* C15: when a step of the flush body fails (the chain's flush, recording
\* the file set, the compound file, the .si, the live docs), flush returns
\* the error, the DWPT is aborted, its pending_updates are cleared and no
\* segment is returned; and flush returns an error in no other case.
FlushFailureAborts ==
    /\ (Returned("flush", "Some") \/ Returned("flush", "None")) =>
          last.call.fail = NoFailure
    /\ \A step \in FlushSteps :
          (last.d \in Dwpts /\ last.call.op = "flush" /\ last.call.fail = step) =>
              /\ last.status = "FlushError"
              /\ LastDwpt.aborted
              /\ LastDwpt.pending_updates = ClearBufferedUpdates
              /\ ~LastDwpt.flushed
              /\ ~LastDwpt.segment.flushed

\* flush failed writing the live docs, after the chain's flush, the compound
\* file and the .si were written, on a DWPT that had buffered deleted terms
\* and doc ids.
FlushFailedWritingLiveDocs ==
    /\ Returned("flush", "FlushError")
    /\ last.call.fail = "live_docs"
    /\ LastDwpt.written = {"chain", "cfs", "si"}
    /\ last.call.terms0 # {}
    /\ last.call.ids0 # <<>>


---------------------------------------------------------------------------
---------------------------------------------------------------------------
\* C17: an update_document or update_documents call made on an aborted DWPT
\* is rejected with IllegalState and leaves num_docs_in_ram and
\* pending_num_docs as they were: the documents reserved are the documents
\* in RAM, as before the call.
UpdateOnAbortedDwptRejected ==
    (/\ last.d \in Dwpts
     /\ last.call.op \in {"update_document", "update_documents"}
     /\ last.call.aborted0) =>
        /\ last.status = "IllegalState"
        /\ LastDwpt.num_docs_in_ram = last.call.n0
        /\ pending_num_docs = last.call.n0


---------------------------------------------------------------------------
\* C18: right after advance_del_gen, del_gen is the value next_write_del_gen
\* had before the call and next_write_del_gen is the new del_gen + 1; right
\* after advance_field_infos_gen the same holds of field_infos_gen and
\* next_write_field_infos_gen; neither call touches the other counters.
AdvanceTakesNextWriteGen ==
    /\ (commit_last.op = "advance_del_gen") =>
          /\ commit.del_gen = commit_last.before.next_write_del_gen
          /\ commit.next_write_del_gen = commit.del_gen + 1
          /\ commit = [commit_last.before EXCEPT
                          !.del_gen = commit.del_gen,
                          !.next_write_del_gen = commit.next_write_del_gen]
    /\ (commit_last.op = "advance_field_infos_gen") =>
          /\ commit.field_infos_gen =
                 commit_last.before.next_write_field_infos_gen
          /\ commit.next_write_field_infos_gen = commit.field_infos_gen + 1
          /\ commit = [commit_last.before EXCEPT
                          !.field_infos_gen = commit.field_infos_gen,
                          !.next_write_field_infos_gen =
                              commit.next_write_field_infos_gen]

\* advance_field_infos_gen was called on a commit info that never had field
\* infos written, after advance_del_gen took a generation that a failed
\* write had left a gap before.
AdvancedPastAGap ==
    /\ commit_last.op = "advance_field_infos_gen"
    /\ commit_last.before.field_infos_gen = -1
    /\ commit.del_gen > 1
    /\ (commit.del_gen - 1) \in skipped

---------------------------------------------------------------------------
\* C19 as stated: on a commit info on which no write has failed, a freshly
\* constructed one with generation -1 included, each next-write generation
\* is the generation + 1.
NextWriteGenIsGenPlusOne ==
    (skipped = {}) =>
        /\ commit.next_write_del_gen = commit.del_gen + 1
        /\ commit.next_write_field_infos_gen = commit.field_infos_gen + 1
        /\ commit.next_write_doc_values_gen = commit.doc_values_gen + 1

\* C19: on a commit info on which no write has failed, each next-write
\* generation is the generation + 1 if the generation is not -1, and is 1
\* (generation 0 is never written) if the generation is -1, as it is on a
\* freshly constructed commit info.
NextWriteGenIsGenPlusOneOrFirst ==
    (skipped = {}) =>
        /\ commit.next_write_del_gen =
              IF commit.del_gen = -1 THEN 1 ELSE commit.del_gen + 1
        /\ commit.next_write_field_infos_gen =
              IF commit.field_infos_gen = -1 THEN 1
              ELSE commit.field_infos_gen + 1
        /\ commit.next_write_doc_values_gen =
              IF commit.doc_values_gen = -1 THEN 1
              ELSE commit.doc_values_gen + 1

\* A commit info constructed with generations -1, 0 and 1, none of them
\* advanced yet.
ConstructedWithMixedGenerations ==
    /\ skipped = {}
    /\ commit_last = NoCommitCall
    /\ commit.del_gen = -1
    /\ commit.field_infos_gen = 0
    /\ commit.doc_values_gen = 1

---------------------------------------------------------------------------
\* C20: over any sequence of advance_next_write_del_gen and advance_del_gen
\* calls, next_write_del_gen is above del_gen in every state, every
\* advance_del_gen raises del_gen, a failed attempt leaves del_gen alone,
\* and del_gen is never a generation that a failed attempt used up.
DelGenNeverReusesAGeneration ==
    /\ commit.next_write_del_gen > commit.del_gen
    /\ (commit_last.op = "advance_del_gen") =>
          commit.del_gen > commit_last.before.del_gen
    /\ (commit_last.op = "advance_next_write_del_gen") =>
          /\ commit.del_gen = commit_last.before.del_gen
          /\ commit.next_write_del_gen >
                 commit_last.before.next_write_del_gen
    /\ commit.del_gen \notin skipped
    /\ commit.next_write_del_gen \notin skipped

\* advance_del_gen was called after two failed attempts in a row on a commit
\* info that had live docs of generation 0.
DelGenAdvancedAfterTwoFailures ==
    /\ commit_last.op = "advance_del_gen"
    /\ commit_last.before.del_gen = 0
    /\ skipped = {1, 2}
    /\ commit.del_gen = 3


---------------------------------------------------------------------------
\* C21: set_del_count(d) with d < 0 or d > info.max_doc returns an error
\* and leaves del_count (and the rest of the commit info) as it was, and
\* otherwise stores d; so on a commit info made as flush makes it (del_count
\* 0, max_doc >= 0), after any sequence of set_del_count calls,
\* 0 <= del_count <= max_doc.
DelCountWithinMaxDoc ==
    /\ 0 <= commit.del_count
    /\ commit.del_count <= commit.max_doc
    /\ (commit_last.op = "set_del_count") =>
          LET d == commit_last.del_count
              before == commit_last.before
          IN  IF d < 0 \/ d > before.max_doc
              THEN ~commit_last.ok /\ commit = before
              ELSE /\ commit_last.ok
                   /\ commit = [before EXCEPT !.del_count = d]

\* set_del_count(max_doc + 1) was rejected on a commit info whose del_count
\* an earlier call had set to max_doc.
DelCountAboveMaxDocRejected ==
    /\ commit_last.op = "set_del_count"
    /\ ~commit_last.ok
    /\ commit_last.del_count = commit.max_doc + 1
    /\ commit.del_count = commit.max_doc
    /\ commit.max_doc > 0


---------------------------------------------------------------------------
\* C22: over any sequence of set_max_doc calls and flushes on a DWPT's
\* SegmentInfo, max_doc changes at most once, from -1 to a value >= 0: a
\* call made when max_doc is set leaves it as it is, a call made when it is
\* -1 leaves it -1 or >= 0, and a set_max_doc made when it is set returns
\* IllegalState.
MaxDocSetOnce ==
    (last.d \in Dwpts) =>
        /\ (last.call.max_doc0 # -1) =>
              LastDwpt.max_doc = last.call.max_doc0
        /\ LastDwpt.max_doc >= -1
        /\ (last.call.op = "set_max_doc" /\ last.call.max_doc0 # -1) =>
              last.status = "IllegalState"


---------------------------------------------------------------------------
\* s starts with p.
StartsWith(s, p) == Len(s) >= Len(p) /\ SubSeq(s, 1, Len(p)) = p

\* C23: after any sequence of set_files, add_files and add_file calls, every
\* name in the file set is a codec file name, does not end in .tmp and starts
\* with the segment's name; and a call that offers an invalid name returns
\* an error and leaves the file set as it was before the call.
FileSetHoldsCodecFileNames ==
    /\ \A name \in set_files :
          /\ IsCodecFileName(name)
          /\ ~EndsWithTmp(name)
          /\ StartsWith(name, SegmentName)
    /\ (files_last.op # "none" /\ files_last.invalid) =>
          ~files_last.ok /\ set_files = files_last.before


---------------------------------------------------------------------------
\* Thread t is blocked in the wait of new_thread_state.
Blocked(t) == tpc[t] = "waiting"

\* In this step t leaves the wait.
LeavesWait(t) == Blocked(t) /\ tpc'[t] # "waiting"

\* In this step t is handed a ThreadState made in the step.
GetsFreshState(t) ==
    /\ tpc'[t] = "holding"
    /\ held'[t] = Len(thread_states)
    /\ Len(thread_states') = Len(thread_states) + 1
    /\ thread_states'[Len(thread_states')] = NewThreadState

\* C24: while aborted is set no ThreadState is appended to thread_states; a
\* thread blocked in new_thread_state stays blocked while aborted is set and
\* returns only with a fresh state; and once clear_abort has cleared aborted
\* a blocked thread, fairly scheduled, returns unless aborted is set again
\* first.
BlockedWhileAbortedThenFreshState ==
    /\ [][pool_aborted => Len(thread_states') = Len(thread_states)]_vars
    /\ [][\A t \in PoolThreads :
            LeavesWait(t) => ~pool_aborted /\ GetsFreshState(t)]_vars
    /\ \A t \in PoolThreads :
          (Blocked(t) /\ ~pool_aborted) ~> (tpc[t] = "holding" \/ pool_aborted)

\* Witness of C24: clear_abort was called while a thread was blocked.
BlockedThreadSeesAbortCleared ==
    \E t \in PoolThreads : Blocked(t) /\ ~pool_aborted /\ Len(thread_states) > 0


---------------------------------------------------------------------------
\* In this step t's get_and_lock call takes the pool's lock.
StartsGetAndLock(t) == tpc[t] = "out" /\ tpc'[t] # "out"

\* t holds a ThreadState and none of its guards: its operation is complete.
OperationComplete(t) ==
    tpc[t] = "holding" /\ StateAt(held[t]).mutex # t

\* C25: while aborted is set, a thread that holds a ThreadState and has
\* completed its operation can release it, every get_and_lock call that
\* starts goes to wait at the gate, whether or not the free list is empty,
\* and a call that waits at the gate does not return.
AbortGateStopsEveryGetAndLock ==
    /\ [](\A t \in PoolThreads :
            (pool_aborted /\ OperationComplete(t)) => ENABLED Release(t))
    /\ [][\A t \in PoolThreads :
            (pool_aborted /\ StartsGetAndLock(t)) => Blocked(t)']_vars
    /\ [][\A t \in PoolThreads : LeavesWait(t) => ~pool_aborted]_vars


---------------------------------------------------------------------------
\* Thread t's get_and_lock call has just returned a ThreadState.
JustReturned(t) ==
    /\ pool_last.op # "none"
    /\ pool_last.thread = t
    /\ tpc[t] = "holding"

\* The call that just ran pushed a ThreadState.
JustCreated == pool_last.op # "none" /\ Len(thread_states) > pool_last.len0

\* The call that just ran found a free state: it returned one of the free
\* states, one that held a DWPT if any free state did, the free list is left
\* with the other free indices, and no ThreadState was created.
ServedFromFreeList ==
    (pool_last.op = "get_and_lock" /\ pool_last.free0 # <<>>) =>
        LET t == pool_last.thread
        IN  /\ JustReturned(t)
            /\ held[t] \in Range(pool_last.free0)
            /\ (pool_last.inited0 # {}) => held[t] \in pool_last.inited0
            /\ Range(free_list) = Range(pool_last.free0) \ {held[t]}
            /\ Len(free_list) = Len(pool_last.free0) - 1
            /\ ~JustCreated

\* C26 as stated: if a free ThreadState holds a DWPT, get_and_lock returns a
\* state that holds one; the free list afterwards holds the previously free
\* indices but the returned one; and a ThreadState is created only when the
\* free list is empty.
CreatesOnlyWhenFreeListEmpty ==
    /\ ServedFromFreeList
    /\ JustCreated => pool_last.free0 = <<>>

\* C26, amended: if a free ThreadState holds a DWPT, get_and_lock returns a
\* state that holds one; the free list afterwards holds the previously free
\* indices but the returned one; and a ThreadState is created only by a call
\* that found the free list empty when it took the pool's lock: at once, or
\* after its wait at the abort gate, whatever the free list holds by then.
CreatesOnlyIfCallFoundFreeListEmpty ==
    /\ ServedFromFreeList
    /\ JustCreated =>
          \/ pool_last.op = "get_and_lock" /\ pool_last.free0 = <<>>
          \/ pool_last.op = "new_thread_state"
    /\ \A t \in PoolThreads :
          (pool_last.op = "get_and_lock" /\ pool_last.thread = t /\ Blocked(t))
              => pool_last.free0 = <<>>

\* Witness of C26: the state popped held no DWPT, another free one did, and
\* that one was returned in its place.
ReturnedInitedStateBySwap ==
    /\ pool_last.op = "get_and_lock"
    /\ Len(pool_last.free0) >= 2
    /\ pool_last.free0[Len(pool_last.free0)] \notin pool_last.inited0
    /\ held[pool_last.thread] \in pool_last.inited0
    /\ pool_last.free0[Len(pool_last.free0)] \in Range(free_list)


---------------------------------------------------------------------------
\* The free list holds no index twice and only indices of thread_states,
\* every ThreadState is either free or held, and no held state is free (what
\* release asserts of the state it is given).
FreeAndHeldPartitionStates ==
    /\ \A i, j \in 1..Len(free_list) : i # j => free_list[i] # free_list[j]
    /\ \A i \in 1..Len(free_list) :
          free_list[i] >= 0 /\ free_list[i] < Len(thread_states)
    /\ Len(thread_states) = Len(free_list) + Cardinality(Holders)
    /\ \A t \in Holders : held[t] \notin Range(free_list)

\* C27: under any interleaving of get_and_lock and release the free list
\* holds no duplicate index and only indices below thread_states.len(),
\* thread_states.len() is the number of free states plus the number of held
\* states, the state given to release is never already free, and there are
\* never more ThreadStates than the peak number of simultaneous holders.
StatesNeverExceedPeakHolders ==
    /\ FreeAndHeldPartitionStates
    /\ \A t \in PoolThreads : OperationComplete(t) => ENABLED Release(t)
    /\ Len(thread_states) <= peak

\* Witness of C27: three threads held a state each at once, two released
\* theirs, and one state is held again.
ThreeStatesTwoFreeAfterPeak ==
    /\ peak = 3
    /\ Len(thread_states) = 3
    /\ Len(free_list) = 2
    /\ Cardinality(Holders) = 1
    /\ pool_last.op = "get_and_lock"


---------------------------------------------------------------------------
\* write returned Ok: the directory holds the container of si.files().
ContainerWritten == container.made = "Ok"

\* The entries file of the directory, as read_entries reads it.
WrittenEntries == ReadEntries(directory).entries

\* The entry of the i-th file that write packed.
EntryOfFile(i) == WrittenEntries[StripSegmentName(container.order[i])]

\* C28: the entries file of a container that write produced from N files
\* holds exactly N entries that tile the payload of the data file: the first
\* starts at the length of the data header, each other one where the one
\* before it ends, and header length + the entries' lengths + footer length is
\* the length of the data file.
EntriesTileThePayload ==
    ContainerWritten =>
        LET N == Cardinality(si_files)
            cfe == directory[SegmentFileName(ENTRIES_EXTENSION)]
            cfs == directory[SegmentFileName(DATA_EXTENSION)]
        IN  /\ ReadEntries(directory).ok
            /\ cfe[IndexHeaderLength(ENTRY_CODEC, <<>>) + 1] = N
            /\ Cardinality(DOMAIN WrittenEntries) = N
            /\ Len(container.order) = N
            /\ N > 0 => EntryOfFile(1).offset = IndexHeaderLength(DATA_CODEC, <<>>)
            /\ \A i \in 1..(N - 1) :
                  EntryOfFile(i + 1).offset
                      = EntryOfFile(i).offset + EntryOfFile(i).length
            /\ IndexHeaderLength(DATA_CODEC, <<>>) + SumOfLengths(WrittenEntries)
                   + FooterLength = Len(cfs)

\* Witness of C28: three files with bodies of different lengths were packed.
ThreeFilesPacked ==
    /\ ContainerWritten
    /\ Cardinality(si_files) = 3
    /\ \E f, g \in si_files : Len(directory[f]) # Len(directory[g])
    /\ EntryOfFile(3).offset > EntryOfFile(2).offset


---------------------------------------------------------------------------
\* A reader was opened on the container that write produced.
ReaderOfWrittenContainer == ContainerWritten /\ reader_last.op # "none"

\* The bytes of file f with its footer replaced by FOOTER_MAGIC, 0 and the
\* checksum read from that footer.
WithSubstituteFooter(f) ==
    SubSeq(f, 1, Len(f) - FooterLength) \o FOOTER_MAGIC \o IntBytes(0)
        \o SubSeq(f, Len(f) - 7, Len(f))

\* The reader gives back what write packed: list_all is si.files(), and for
\* each of these names file_length is the length recorded for it and
\* open_input yields the file's bytes with a substitute footer.
ReaderGivesBackTheFiles ==
    ReaderOfWrittenContainer =>
        /\ reader.ok
        /\ reader_last.op = "list_all" => reader_last.res = si_files
        /\ (reader_last.op = "file_length" /\ reader_last.name \in si_files) =>
              /\ reader_last.res.ok
              /\ reader_last.res.v
                     = WrittenEntries[StripSegmentName(reader_last.name)].length
              /\ reader_last.res.v = Len(directory[reader_last.name])
        /\ (reader_last.op = "open_input" /\ reader_last.name \in si_files) =>
              /\ reader_last.res.ok
              /\ reader_last.res.v
                     = WithSubstituteFooter(directory[reader_last.name])

\* The last call on the reader was file_length or open_input.
AskedForAFile == reader_last.op \in {"file_length", "open_input"}

---------------------------------------------------------------------------
\* The entries file put into the directory declares two entries with the same
\* stripped name.
DeclaresDuplicate ==
    /\ container.made = "put"
    /\ \E i, j \in 1..Len(container.order) :
          i # j /\ container.order[i].name = container.order[j].name

\* C30: opening a container whose entries file declares two entries with the
\* same stripped name fails with the duplicate-entry error and yields no
\* reader, whatever the offsets and lengths of the entries, wherever the two
\* stand in the list and whatever the length of the data file.
DuplicateEntryFailsOpen ==
    (DeclaresDuplicate /\ reader_last.op = "new") =>
        ~reader.ok /\ reader.err = "Duplicate cfs entry id"

\* Witness of C30: the second and the third of three entries have the same
\* name and different offsets and lengths, and new has returned the error.
OpenFailedOnLateDuplicate ==
    /\ container.made = "put"
    /\ reader_last.op = "new"
    /\ Len(container.order) = 3
    /\ container.order[1].name # container.order[2].name
    /\ container.order[2].name = container.order[3].name
    /\ container.order[2].offset # container.order[3].offset
    /\ container.order[2].length # container.order[3].length
    /\ ~reader.ok

\* ---------------------------------------------------------------------------
\* Length check of Lucene50CompoundReader::new
\* ---------------------------------------------------------------------------

\* The length the entries file declares for the data file: header, the
\* entries' lengths and footer.
DeclaredDataLength ==
    IndexHeaderLength(DATA_CODEC, <<>>)
        + SumOfLengths(ReadEntries(directory).entries) + FooterLength

DataLengthDiffers ==
    Len(directory[SegmentFileName(DATA_EXTENSION)]) # DeclaredDataLength

\* new has been called on a container whose entries file reads without error.
OpenedWithReadableEntries ==
    /\ container.made # "none"
    /\ reader # NoReader
    /\ ReadEntries(directory).ok

FailedWithLengthMismatch == ~reader.ok /\ reader.err = "length should be"

\* C31: new fails with the length-mismatch error whenever the length of the
\* .cfs file differs from header length + sum of the declared entry lengths +
\* footer length, and whenever new succeeds the lengths are equal.
LengthMismatchFailsWithLengthError ==
    OpenedWithReadableEntries =>
        /\ DataLengthDiffers => FailedWithLengthMismatch
        /\ reader.ok => ~DataLengthDiffers

\* ---------------------------------------------------------------------------
\* The compound reader is read-only
\* ---------------------------------------------------------------------------

MutatingOperations ==
    {"create_output", "rename", "delete_file", "obtain_lock", "sync",
     "create_temp_output"}

\* C32: on a Lucene50CompoundReader each of create_output, rename,
\* delete_file, obtain_lock, sync and create_temp_output returns an
\* UnsupportedOperation error, and sync_meta_data returns success.
MutatingOperationsAreUnsupported ==
    /\ reader_last.op \in MutatingOperations => reader_last.res = Unsupported
    /\ reader_last.op = "sync_meta_data" => reader_last.res.ok

\* No call on an open reader changes the reader or the directory under it.
ReaderCallsLeaveEntriesUnchanged ==
    [][reader.ok => (reader' = reader /\ directory' = directory)]_vars

\* ---------------------------------------------------------------------------
\* finish_document on a DWPT with and without documents
\* ---------------------------------------------------------------------------

\* The last step was the Ok return of update_document on a DWPT, that is the
\* return of finish_document.
FinishDocumentReturned == last.status = "Ok" /\ last.call.op = "update_document"

\* The deletes the slice of the call held when finish_document ran, stamped
\* with the number of documents the DWPT held before the increment.
SliceAppliedAtFinish ==
    SliceApplyTerms(queue,
                    [head |-> last.call.slice0.head,
                     tail |-> dwpt[last.d].delete_slice.tail],
                    last.call.terms0, last.call.n0)

\* C33: finish_document applies the delete slice to pending_updates exactly
\* when the DWPT held documents before the increment, with doc_id_upto equal
\* to their number; a DWPT that held no document records no queued delete in
\* pending_updates, with or without a del_term.
FinishAppliesSliceExactlyWithDocs ==
    FinishDocumentReturned =>
        dwpt[last.d].pending_updates.deleted_terms
            = IF last.call.n0 > 0 THEN SliceAppliedAtFinish ELSE last.call.terms0

\* update_document(doc, Some(t)) has just returned Ok on a DWPT that held no
\* document at the call.
DelTermOnEmptyDwpt ==
    /\ Returned("update_document", "Ok")
    /\ last.call.del_term # NoTerm
    /\ last.call.n0 = 0

\* C34: when update_document(doc, Some(t)) returns Ok on a DWPT that held no
\* document, t is appended to the shared queue with the seq-no returned, the
\* next slice update of every other DWPT picks the node up and the next
\* freeze_global_buffer contains it, the caller's pending_updates is as it
\* was before the call, without t, and num_docs_in_ram is 1.
DelTermOnEmptyDwptQueuedNotApplied ==
    DelTermOnEmptyDwpt =>
        LET i == Len(queue)
        IN  /\ i > last.call.qlen_indexed
            /\ queue[i] = Node(last.call.del_term, last.seq)
            /\ LastDwpt.pending_updates.deleted_terms = last.call.terms0
            /\ \A e \in LastDwpt.pending_updates.deleted_terms : e.node # i
            /\ LastDwpt.num_docs_in_ram = 1
            /\ \A d \in Dwpts \ {last.d} :
                  LET r == QUpdateSlice(queue, seq_no, dwpt[d].delete_slice)
                  IN  r.changed /\ i \in (r.slice.head + 1)..r.slice.tail
            /\ i \in QFreezeGlobalBuffer(queue, global_head,
                                         LastDwpt.delete_slice).frozen

\* The call was made while another DWPT held documents and the caller had
\* a delete of another writer in its slice.
DelTermOnEmptyDwptBesideOthers ==
    /\ DelTermOnEmptyDwpt
    /\ \E d \in Dwpts \ {last.d} : dwpt[d].num_docs_in_ram > 0
    /\ Len(queue) > 1

\* ---------------------------------------------------------------------------
\* Concurrent reservations
\* ---------------------------------------------------------------------------

\* The documents reserved for good: the counter without the increments of
\* the reservations that are not decided or not yet taken back.
ReservedDocs == pending_num_docs - Cardinality({d \in Dwpts : Reserving(d)})

\* C35: with several DWPTs reserving at the same time a reservation is
\* rejected only if INDEX_MAX_DOCS documents are reserved already, so that of
\* m concurrent reservations for k remaining slots exactly k succeed.
ReservationRejectedOnlyAtFullCap ==
    \A d \in Dwpts :
        call[d].pc = "reserve_sub" => ReservedDocs = INDEX_MAX_DOCS

\* ---------------------------------------------------------------------------
\* The buffered deleted doc ids
\* ---------------------------------------------------------------------------

\* The ids are pairwise distinct and each is the id of a document of the
\* first n.
DistinctDocIdsBelow(ids, n) ==
    /\ \A i, j \in 1..Len(ids) : (i # j) => (ids[i] # ids[j])
    /\ \A i \in 1..Len(ids) : ids[i] \in 0..(n - 1)

\* C36: in every state of a DWPT that is not aborted, whatever
\* update_document and update_documents calls succeeded or failed on it, the
\* buffered deleted doc ids are pairwise distinct and lie in
\* 0 .. num_docs_in_ram - 1; and when flush returns a segment, every id it
\* cleared was inside the live docs and del_count_on_flush is the number of
\* cleared bits.
DeletedDocIdsDistinctAndInRange ==
    /\ \A d \in Dwpts :
          ~dwpt[d].aborted =>
              DistinctDocIdsBelow(dwpt[d].pending_updates.deleted_doc_ids,
                                  dwpt[d].num_docs_in_ram)
    /\ Returned("flush", "Some") =>
          LET seg == LastDwpt.segment
          IN  /\ DistinctDocIdsBelow(LastDwpt.flush_ids, last.call.n0)
              /\ seg.del_count = Len(LastDwpt.flush_ids)
              /\ seg.del_count
                     = Cardinality({i \in 1..Len(seg.live_docs) : ~seg.live_docs[i]})
              /\ (seg.live_docs # <<>>) => (Len(seg.live_docs) = last.call.n0)

\* flush returned a segment for a DWPT on which a block failed at its second
\* document, both documents marked deleted from the last one down.
FlushedAfterFailedBlock ==
    /\ Returned("flush", "Some")
    /\ Len(LastDwpt.flush_ids) >= 2
    /\ LastDwpt.flush_ids[1] > LastDwpt.flush_ids[2]
    /\ LastDwpt.segment.del_count < last.call.n0

\* ---------------------------------------------------------------------------
\* The delete slice between calls
\* ---------------------------------------------------------------------------

\* update_document or update_documents has just returned Ok.
UpdateReturnedOk ==
    Returned("update_document", "Ok") \/ Returned("update_documents", "Ok")

\* The queue nodes the slice of the call covered when it was applied or reset.
PickedUpByCall ==
    (last.call.slice0.head + 1)..LastDwpt.delete_slice.tail

\* The nodes the call recorded in pending_updates.
RecordedByCall ==
    {e.node : e \in LastDwpt.pending_updates.deleted_terms \ last.call.terms0}

\* C37: after every update_document or update_documents call that returns Ok
\* the DWPT's delete slice is empty, head == tail, at the end of the queue:
\* the deletes the slice had picked up were either all applied to
\* pending_updates or all dropped by reset, and none is left in the slice
\* for the next call.
SliceEmptyAfterOkUpdate ==
    UpdateReturnedOk =>
        /\ SliceIsEmpty(LastDwpt.delete_slice)
        /\ LastDwpt.delete_slice.tail = Len(queue)
        /\ RecordedByCall = PickedUpByCall \/ RecordedByCall = {}

\* A block returned Ok after its slice picked up the delete of another writer
\* and its own del_term, and applied both.
BlockAppliedPickedUpDeletes ==
    /\ Returned("update_documents", "Ok")
    /\ Cardinality(PickedUpByCall) = 2
    /\ RecordedByCall = PickedUpByCall

\* ---------------------------------------------------------------------------
\* The cached size of a flushed segment
\* ---------------------------------------------------------------------------

\* C38: whenever the cached size_in_bytes of a SegmentCommitInfo is not -1
\* it is the sum of the lengths of the files files() returns; so on the
\* commit info flush returns, after the compound-file, .si and live-docs
\* steps, size_in_bytes() gives the size of the final file set.
CachedSizeIsSizeOfFiles ==
    \A d \in Dwpts :
        dwpt[d].segment.flushed =>
            LET sci == dwpt[d].segment.segment_info
                sum == dwpt[d].files_size
            IN  /\ sci.size_in_bytes # -1 => sci.size_in_bytes = sum
                /\ SizeInBytes(sci, sum).size_in_bytes = sum

\* ---------------------------------------------------------------------------
\* Generation file names
\* ---------------------------------------------------------------------------

\* C39: for every segment name, extension and generation g >= 0,
\* parse_generation(file_name_from_generation(base, ext, g)) returns g.
GenerationRoundTrip ==
    (gen_name.parsed # NoResult) =>
        gen_name.parsed.ok /\ gen_name.parsed.v = gen_name.gen

====
